---- MODULE Spec2Model ----
(***************************************************************************)
(* A model of @safekit/route: the route registry, the schema adapters and  *)
(* the resolution pipeline behind path(), URL() and href().                *)
(*                                                                         *)
(* Representation.                                                         *)
(*   - A JavaScript string is a sequence of one-character strings, so that *)
(*     scanning, replacing and percent-encoding are computed, not assumed. *)
(*   - A JavaScript object used as a mapping (params, query) is a sequence *)
(*     of entries [k, v] in insertion order with distinct keys; `k in m`   *)
(*     is membership among the keys (names inherited from Object.prototype *)
(*     are not placeholder names of any modelled template).                *)
(*   - A JavaScript value is a record tagged by t: "str", "num", "null",   *)
(*     "undef", "arr", "obj", "promise", "result", "url".                  *)
(*   - An operation's outcome is Ok(value, calls) or Fail(error, calls),   *)
(*     calls being the validator and serializer calls it made, in order.   *)
(*   - A handler is written as a chain of operators, one per stage, each   *)
(*     taking the results of the stages before it as parameters.           *)
(***************************************************************************)
EXTENDS Integers, Sequences, FiniteSets, TLC

(***************************************************************************)
(* Strings                                                                 *)
(***************************************************************************)

\* [a-zA-Z0-9_] of the placeholder regular expression, over the alphabet used.
IdentChars ==
  {"a", "b", "c", "d", "e", "f", "g", "h", "i", "j", "k", "l", "m", "n", "o", "p",
   "q", "r", "s", "t", "u", "v", "w", "x", "y", "z", "A", "B", "O", "Z",
   "0", "1", "2", "3", "4", "5", "6", "7", "8", "9", "_"}

\* Characters encodeURIComponent leaves alone: A-Z a-z 0-9 - _ . ! ~ * ' ( )
UriUnreserved == IdentChars \cup {"-", ".", "!", "~", "*", "'", "(", ")"}

RECURSIVE Concat(_)
Concat(ss) == IF ss = <<>> THEN <<>> ELSE Head(ss) \o Concat(Tail(ss))

\* s.startsWith(p)
StartsWith(s, p) == Len(s) >= Len(p) /\ SubSeq(s, 1, Len(p)) = p

\* s.indexOf(p), 1-based; 0 when p does not occur
IndexOf(s, p) ==
  LET hits == {i \in 1..(Len(s) - Len(p) + 1) : SubSeq(s, i, i + Len(p) - 1) = p}
  IN IF hits = {} THEN 0 ELSE CHOOSE i \in hits : \A j \in hits : i <= j

Contains(s, p) == IndexOf(s, p) # 0

\* The UTF-8 percent-escape of one character outside UriUnreserved.
PercentCode(c) ==
  CASE c = " " -> <<"%", "2", "0">>
    [] c = "@" -> <<"%", "4", "0">>
    [] c = "#" -> <<"%", "2", "3">>
    [] c = "/" -> <<"%", "2", "F">>
    [] c = ":" -> <<"%", "3", "A">>
    [] c = "?" -> <<"%", "3", "F">>
    [] c = "$" -> <<"%", "2", "4">>
    [] c = "&" -> <<"%", "2", "6">>
    [] c = "=" -> <<"%", "3", "D">>
    [] c = "," -> <<"%", "2", "C">>
    [] c = "[" -> <<"%", "5", "B">>
    [] c = "]" -> <<"%", "5", "D">>
    [] c = "%" -> <<"%", "2", "5">>
    [] c = "!" -> <<"%", "2", "1">>
    [] c = "'" -> <<"%", "2", "7">>
    [] c = "(" -> <<"%", "2", "8">>
    [] c = ")" -> <<"%", "2", "9">>
    [] c = "*" -> <<"%", "2", "A">>
    [] c = "~" -> <<"%", "7", "E">>
    [] OTHER -> <<"%", "3", "F">>

RECURSIVE encodeURIComponent(_)
encodeURIComponent(s) ==
  IF s = <<>> THEN <<>>
  ELSE (IF Head(s) \in UriUnreserved THEN <<Head(s)>> ELSE PercentCode(Head(s)))
       \o encodeURIComponent(Tail(s))

\* String.prototype.replace(pattern, replacement) with a string pattern:
\* only the first occurrence is replaced.  The replacement is always an
\* encodeURIComponent output, which has no "$", so no $-pattern is expanded.
Splice(s, i, n, r) ==
  IF i = 0 THEN s ELSE SubSeq(s, 1, i - 1) \o r \o SubSeq(s, i + n, Len(s))

StringReplace(s, p, r) == Splice(s, IndexOf(s, p), Len(p), r)

(***************************************************************************)
(* Values and mappings                                                     *)
(***************************************************************************)

Str(s) == [t |-> "str", s |-> s]
Num(digits) == [t |-> "num", s |-> digits]
Null == [t |-> "null", s |-> <<>>]
Undefined == [t |-> "undef", s |-> <<>>]
Arr(items) == [t |-> "arr", s |-> <<>>, items |-> items]
\* An object used as a mapping: its entries [k, v] in insertion order.
Obj(entries) == [t |-> "obj", s |-> <<>>, entries |-> entries]

RECURSIVE JoinWith(_, _)
JoinWith(ss, sep) ==
  IF ss = <<>> THEN <<>>
  ELSE IF Len(ss) = 1 THEN Head(ss)
  ELSE Head(ss) \o sep \o JoinWith(Tail(ss), sep)

\* String(value)
RECURSIVE String(_)
String(v) ==
  CASE v.t = "str" -> v.s
    [] v.t = "num" -> v.s
    [] v.t = "null" -> <<"n", "u", "l", "l">>
    [] v.t = "undef" -> <<"u", "n", "d", "e", "f", "i", "n", "e", "d">>
    [] v.t = "obj" -> <<"[", "o", "b", "j", "e", "c", "t", " ", "O", "b", "j", "e", "c", "t", "]">>
    [] v.t = "arr" ->
         JoinWith([i \in 1..Len(v.items) |->
                     IF v.items[i].t \in {"null", "undef"} THEN <<>>
                     ELSE String(v.items[i])], <<",">>)

Entry(k, v) == [k |-> k, v |-> v]
Keys(o) == {o.entries[i].k : i \in 1..Len(o.entries)}
\* name in o
HasKey(o, k) == k \in Keys(o)
\* o[name]; undefined when the key is absent
Get(o, k) ==
  IF HasKey(o, k)
  THEN o.entries[CHOOSE i \in 1..Len(o.entries) : o.entries[i].k = k].v
  ELSE Undefined

\* An optional argument or option: absent (undefined) or present with a value.
Absent == [present |-> FALSE]
Some(x) == [present |-> TRUE, v |-> x]

(***************************************************************************)
(* Validators                                                              *)
(*                                                                         *)
(* A validator is an external object: the set of capabilities it exposes   *)
(* (caps) and the validation logic behind them (beh).  ret is what its     *)
(* assert capability returns on success: the data ("data") or nothing      *)
(* ("void").                                                               *)
(***************************************************************************)

Capabilities == {"call", "assert", "parse", "validateSync", "create", "standard"}

NoSchema == [kind |-> "absent"]
NullSchema == [kind |-> "null"]
Schema(caps, beh, ret) == [kind |-> "schema", caps |-> caps, beh |-> beh, ret |-> ret]

\* if (definition.params): undefined and null are falsy, objects and functions truthy
Truthy(schema) == schema.kind = "schema"

ID == <<"i", "d">>
BadValue == Str(<<"b", "a", "d">>)
DefaultId == Str(<<"4", "2">>)

Issue(message, path) == [message |-> message, path |-> path]
CheckIssues == <<Issue("Invalid email format", ""), Issue("Required", "id")>>

Lower(c) == IF c = "A" THEN "a" ELSE c
LowerValue(v) ==
  IF v.t = "str" THEN Str([i \in 1..Len(v.s) |-> Lower(v.s[i])]) ELSE v

\* The entries of o whose key is not k, in order.
RECURSIVE Without(_, _)
Without(es, k) ==
  IF es = <<>> THEN <<>>
  ELSE IF Head(es).k = k THEN Without(Tail(es), k)
  ELSE <<Head(es)>> \o Without(Tail(es), k)

\* The validation logic of the validators used: what it makes of an input.
\*   accept   returns the input
\*   lower    returns the input with every string value lower-cased
\*   check    rejects an input holding the value "bad", else returns the input
\*   strip    returns the input without its id key
\*   default  returns the input with id defaulted when it has none
\*   throw    raises an error of its own
\*   async    answers with a promise (that resolves to the input)
Underlying(beh, input) ==
  CASE beh = "accept" -> [tag |-> "ok", value |-> input]
    [] beh = "lower" ->
         [tag |-> "ok",
          value |-> Obj([i \in 1..Len(input.entries) |->
                           Entry(input.entries[i].k, LowerValue(input.entries[i].v))])]
    [] beh = "check" ->
         IF \E i \in 1..Len(input.entries) : input.entries[i].v = BadValue
         THEN [tag |-> "fail", issues |-> CheckIssues]
         ELSE [tag |-> "ok", value |-> input]
    [] beh = "strip" -> [tag |-> "ok", value |-> Obj(Without(input.entries, ID))]
    [] beh = "default" ->
         [tag |-> "ok",
          value |-> IF HasKey(input, ID) THEN input
                    ELSE Obj(input.entries \o <<Entry(ID, DefaultId)>>)]
    [] beh = "throw" -> [tag |-> "throw", error |-> [kind |-> "ValidatorCrash"]]
    [] beh = "async" -> [tag |-> "promise", value |-> input]

\* The error a raising capability (call, parse, validateSync, create, assert)
\* raises for a rejected input: the library's own error object.
LibraryError(issues) == [kind |-> "LibraryError", issues |-> issues]

\* What a promise is as a JavaScript value handed back to the adapter.
Promise(resolved) == [t |-> "promise", s |-> <<>>, resolved |-> resolved]

\* What capability cap of a validator hands back when its validation logic
\* made u of the input: it returns a JavaScript value or raises an error.
\*   standard: validate(input) returns {value} or {issues} (or a promise);
\*   the others return the output or raise.
Handback(schema, cap, u) ==
  CASE u.tag = "throw" -> [tag |-> "throw", error |-> u.error]
    [] u.tag = "promise" -> [tag |-> "return", value |-> Promise(u.value)]
    [] u.tag = "fail" ->
         IF cap = "standard"
         THEN [tag |-> "return",
               value |-> [t |-> "result", s |-> <<>>, issues |-> Some(u.issues),
                          value |-> Undefined]]
         ELSE [tag |-> "throw", error |-> LibraryError(u.issues)]
    [] u.tag = "ok" ->
         IF cap = "standard"
         THEN [tag |-> "return",
               value |-> [t |-> "result", s |-> <<>>, issues |-> Absent,
                          value |-> u.value]]
         ELSE IF cap = "assert" /\ schema.ret = "void"
         THEN [tag |-> "return", value |-> Undefined]
         ELSE [tag |-> "return", value |-> u.value]

\* One invocation of capability cap of a validator on input.
Invoke(schema, cap, input) == Handback(schema, cap, Underlying(schema.beh, input))

Call(slot, cap, input) == [fn |-> "validate", slot |-> slot, cap |-> cap, input |-> input]

Ok(value, calls) == [ok |-> TRUE, value |-> value, calls |-> calls]
Fail(error, calls) == [ok |-> FALSE, error |-> error, calls |-> calls]

\* The message of a StandardSchemaV1Error: the issues joined into one message,
\* each rendered as "path: message" when it has a path, else as its message.
IssueText(issue) ==
  IF issue.path = "" THEN <<issue.message>> ELSE <<issue.path, ": ", issue.message>>

StandardSchemaV1Error(issues) ==
  [kind |-> "StandardSchemaV1Error", issues |-> issues,
   message |-> JoinWith([i \in 1..Len(issues) |-> IssueText(issues[i])], <<", ">>)]

TypeError(what) == [kind |-> "TypeError", what |-> what]

AsyncNotSupported ==
  [kind |-> "Error",
   message |-> "Async validation is not supported. Please use synchronous Standard Schema validation."]

\* A variant of standardValidate that does not look at result.issues.
StandardResultIgnoresIssues(r, calls) ==
  IF r.tag = "throw" THEN Fail(r.error, calls)
  ELSE IF r.value.t = "promise" THEN Fail(AsyncNotSupported, calls)
  ELSE Ok(r.value.value, calls)

\* validator.ts, standardValidate after `const result = validate(input)`:
\* r is what the validate call handed back.
StandardResult(r, calls) ==
  IF r.tag = "throw" THEN Fail(r.error, calls)
  ELSE IF r.value.t = "promise" THEN Fail(AsyncNotSupported, calls)
  ELSE IF r.value.issues.present
  THEN Fail(StandardSchemaV1Error(r.value.issues.v), calls)
  ELSE Ok(r.value.value, calls)

\* validator.ts: standardValidate(schema, input)
standardValidate(slot, schema, input) ==
  IF schema.kind # "schema" \/ "standard" \notin schema.caps
  THEN Fail(TypeError("schema['~standard'] is undefined"), <<>>)
  ELSE StandardResult(Invoke(schema, "standard", input), <<Call(slot, "standard", input)>>)

\* A variant of createParseFn that looks for the standard marker first.
createParseFnStandardFirst(schema) ==
  CASE schema.kind = "null" -> "null"
    [] schema.kind = "schema" ->
         IF "standard" \in schema.caps THEN "standard"
         ELSE IF "call" \in schema.caps /\ "assert" \in schema.caps THEN "callable-assert"
         ELSE IF "call" \in schema.caps THEN "call"
         ELSE IF "parse" \in schema.caps THEN "parse"
         ELSE IF "validateSync" \in schema.caps THEN "validateSync"
         ELSE IF "create" \in schema.caps THEN "create"
         ELSE IF "assert" \in schema.caps THEN "assert"
         ELSE "none"

\* A variant of createParseFn that passes the input through when no rule matches.
createParseFnPassesUnknown(schema) ==
  CASE schema.kind = "null" -> "null"
    [] schema.kind = "schema" ->
         IF "call" \in schema.caps /\ "assert" \in schema.caps THEN "callable-assert"
         ELSE IF "call" \in schema.caps /\ "standard" \notin schema.caps THEN "call"
         ELSE IF "parse" \in schema.caps THEN "parse"
         ELSE IF "validateSync" \in schema.caps THEN "validateSync"
         ELSE IF "create" \in schema.caps THEN "create"
         ELSE IF "assert" \in schema.caps THEN "assert"
         ELSE IF "standard" \in schema.caps THEN "standard"
         ELSE "null"

\* parser.ts: the rule of createParseFn that a validator matches first.
createParseFn(schema) ==
  CASE schema.kind = "null" -> "null"
    [] schema.kind = "schema" ->
         IF "call" \in schema.caps /\ "assert" \in schema.caps THEN "callable-assert"
         ELSE IF "call" \in schema.caps /\ "standard" \notin schema.caps THEN "call"
         ELSE IF "parse" \in schema.caps THEN "parse"
         ELSE IF "validateSync" \in schema.caps THEN "validateSync"
         ELSE IF "create" \in schema.caps THEN "create"
         ELSE IF "assert" \in schema.caps THEN "assert"
         ELSE IF "standard" \in schema.caps THEN "standard"
         ELSE "none"

IncompatibleParser ==
  [kind |-> "Error", message |-> "Could not find a compatible parser method"]

\* A variant of the parse function that wraps what the method raises in an
\* error of the adapter's own.
BoundMethodWraps(r, calls) ==
  IF r.tag = "throw" THEN Fail([kind |-> "Error", message |-> "Validation failed"], calls)
  ELSE Ok(r.value, calls)

\* parser.ts, a bound method used as the parse function (rules 1 to 5): what
\* the method returns is the output, what it raises is raised.
BoundMethod(r, calls) ==
  IF r.tag = "throw" THEN Fail(r.error, calls) ELSE Ok(r.value, calls)

\* A variant of rule 6 that returns what assert returned.
AssertThenReturn(r, value, calls) ==
  IF r.tag = "throw" THEN Fail(r.error, calls) ELSE Ok(r.value, calls)

\* parser.ts, rule 6: (value) => { parser.assert(value); return value }
AssertThenValue(r, value, calls) ==
  IF r.tag = "throw" THEN Fail(r.error, calls) ELSE Ok(value, calls)

\* parser.ts, rule 7: result.issues raises, else result.value is returned
\* (a promise has neither issues nor value).
StandardRule(r, calls) ==
  IF r.tag = "throw" THEN Fail(r.error, calls)
  ELSE IF r.value.t = "promise" THEN Ok(Undefined, calls)
  ELSE IF r.value.issues.present
  THEN Fail(StandardSchemaV1Error(r.value.issues.v), calls)
  ELSE Ok(r.value.value, calls)

\* The parse function that rule stands for, applied to value.
ApplyRule(rule, slot, schema, value) ==
  CASE rule = "null" -> Ok(value, <<>>)
    [] rule = "none" -> Fail(IncompatibleParser, <<>>)
    [] rule = "callable-assert" ->
         BoundMethod(Invoke(schema, "assert", value), <<Call(slot, "assert", value)>>)
    [] rule \in {"call", "parse", "validateSync", "create"} ->
         BoundMethod(Invoke(schema, rule, value), <<Call(slot, rule, value)>>)
    [] rule = "assert" ->
         AssertThenValue(Invoke(schema, "assert", value), value,
                         <<Call(slot, "assert", value)>>)
    [] rule = "standard" ->
         StandardRule(Invoke(schema, "standard", value), <<Call(slot, "standard", value)>>)

\* parser.ts: createParseFn(schema)(value)
ParseFn(slot, schema, value) == ApplyRule(createParseFn(schema), slot, schema, value)

\* await x: a promise yields what it resolves to, any other value itself.
Await(outcome) ==
  IF outcome.ok /\ outcome.value.t = "promise"
  THEN Ok(outcome.value.resolved, outcome.calls)
  ELSE outcome

(***************************************************************************)
(* Query serializers                                                       *)
(***************************************************************************)

\* The encoder of qs (RFC 3986): letters, digits and - . _ ~ are kept.
QsUnreserved == IdentChars \cup {"-", ".", "~"}

RECURSIVE QsEncode(_)
QsEncode(s) ==
  IF s = <<>> THEN <<>>
  ELSE (IF Head(s) \in QsUnreserved THEN <<Head(s)>> ELSE PercentCode(Head(s)))
       \o QsEncode(Tail(s))

\* The application/x-www-form-urlencoded encoder of URLSearchParams:
\* letters, digits and * - . _ are kept, a space becomes "+".
FormUnreserved == IdentChars \cup {"*", "-", "."}

RECURSIVE FormEncode(_)
FormEncode(s) ==
  IF s = <<>> THEN <<>>
  ELSE (IF Head(s) \in FormUnreserved THEN <<Head(s)>>
        ELSE IF Head(s) = " " THEN <<"+">>
        ELSE PercentCode(Head(s)))
       \o FormEncode(Tail(s))

\* A variant of the index digits that counts from 1.
DigitFromOne(i) == <<"1", "2", "3", "4", "5", "6", "7", "8", "9", "0">>[i + 1]

\* The decimal digit of an array index (arrays of the model have at most ten items).
Digit(i) == <<"0", "1", "2", "3", "4", "5", "6", "7", "8", "9">>[i + 1]

\* qs.stringify: the "key=value" pairs of one value under a key prefix.
RECURSIVE QsPairs(_, _, _)
QsPairs(prefix, v, arrayFormat) ==
  CASE v.t = "undef" -> <<>>
    [] v.t = "null" -> <<QsEncode(prefix) \o <<"=">>>>
    [] v.t \in {"str", "num"} -> <<QsEncode(prefix) \o <<"=">> \o QsEncode(String(v))>>
    [] v.t = "arr" ->
         IF v.items = <<>> THEN <<>>
         ELSE IF arrayFormat = "comma"
         THEN <<QsEncode(prefix) \o <<"=">> \o QsEncode(String(v))>>
         ELSE Concat([i \in 1..Len(v.items) |->
                 QsPairs(prefix \o (IF arrayFormat = "indices"
                                    THEN <<"[", Digit(i - 1), "]">>
                                    ELSE <<"[", "]">>),
                         v.items[i], arrayFormat)])
    [] v.t = "obj" ->
         Concat([i \in 1..Len(v.entries) |->
                 QsPairs(prefix \o <<"[">> \o v.entries[i].k \o <<"]">>,
                         v.entries[i].v, arrayFormat)])

\* qs.stringify(query, { arrayFormat }); a non-object stringifies to "".
QsStringify(query, arrayFormat) ==
  IF query.t # "obj" THEN <<>>
  ELSE JoinWith(Concat([i \in 1..Len(query.entries) |->
                          QsPairs(query.entries[i].k, query.entries[i].v, arrayFormat)]),
                <<"&">>)

\* JSON.stringify of a value (strings of the alphabet need no escapes).
RECURSIVE JsonStringify(_)
JsonStringify(v) ==
  CASE v.t = "str" -> <<"\"">> \o v.s \o <<"\"">>
    [] v.t = "num" -> v.s
    [] v.t \in {"null", "undef"} -> <<"n", "u", "l", "l">>
    [] v.t = "arr" ->
         <<"[">> \o JoinWith([i \in 1..Len(v.items) |-> JsonStringify(v.items[i])], <<",">>)
         \o <<"]">>
    [] v.t = "obj" ->
         LET kept == SelectSeq(v.entries, LAMBDA e : e.v.t # "undef")
         IN <<"{">> \o JoinWith([i \in 1..Len(kept) |->
                         <<"\"">> \o kept[i].k \o <<"\"", ":">> \o JsonStringify(kept[i].v)],
                       <<",">>) \o <<"}">>

\* The pairs URLSearchParams holds after querySerializers.native appended one entry.
NativePairs(k, v) ==
  CASE v.t \in {"undef", "null"} -> <<>>
    [] v.t = "arr" ->
         LET kept == SelectSeq(v.items, LAMBDA x : x.t \notin {"undef", "null"})
         IN [i \in 1..Len(kept) |-> FormEncode(k) \o <<"=">> \o FormEncode(String(kept[i]))]
    [] v.t = "obj" -> <<FormEncode(k) \o <<"=">> \o FormEncode(JsonStringify(v))>>
    [] OTHER -> <<FormEncode(k) \o <<"=">> \o FormEncode(String(v))>>

\* query-serializers.ts: querySerializers.native
native(query) ==
  JoinWith(Concat([i \in 1..Len(query.entries) |->
                     NativePairs(query.entries[i].k, query.entries[i].v)]), <<"&">>)

\* query-serializers.ts: querySerializers.brackets / indices / comma
brackets(query) == QsStringify(query, "brackets")
indices(query) == QsStringify(query, "indices")
comma(query) == QsStringify(query, "comma")

\* A caller-supplied serializer: one that answers "c=1" whatever the query.
CustomSerializer(query) == <<"c", "=", "1">>

\* A variant in which the constructor's own serializer uses the indices format.
SerializeDefaultIndices(serializer, query) ==
  CASE serializer = "default" -> Ok(Str(QsStringify(query, "indices")), <<>>)
    [] serializer = "brackets" -> Ok(Str(brackets(query)), <<>>)
    [] serializer = "indices" -> Ok(Str(indices(query)), <<>>)
    [] serializer = "comma" -> Ok(Str(comma(query)), <<>>)
    [] serializer = "native" ->
         IF query.t # "obj" THEN Fail(TypeError("Object.entries of a non-object"), <<>>)
         ELSE Ok(Str(native(query)), <<>>)
    [] serializer = "custom" -> Ok(Str(CustomSerializer(query)), <<>>)

\* The function stored in Router.querySerializer, applied to a query.
\* "default" is the constructor's own qs.stringify with arrayFormat brackets.
Serialize(serializer, query) ==
  CASE serializer = "default" -> Ok(Str(QsStringify(query, "brackets")), <<>>)
    [] serializer = "brackets" -> Ok(Str(brackets(query)), <<>>)
    [] serializer = "indices" -> Ok(Str(indices(query)), <<>>)
    [] serializer = "comma" -> Ok(Str(comma(query)), <<>>)
    [] serializer = "native" ->
         \* Object.entries(undefined) raises
         IF query.t # "obj" THEN Fail(TypeError("Object.entries of a non-object"), <<>>)
         ELSE Ok(Str(native(query)), <<>>)
    [] serializer = "custom" -> Ok(Str(CustomSerializer(query)), <<>>)

(***************************************************************************)
(* Router                                                                  *)
(***************************************************************************)

VARIABLES
  impl,            \* which Router class the instance is: "standard" (router.ts,
                   \* validating with standardValidate) or "legacy" (the earlier
                   \* Router, validating with createParseFn)
  definitions,     \* Router.definitions: the Map, as its entries in insertion order
  defaultBaseUrl,  \* Router.defaultBaseUrl
  querySerializer, \* Router.querySerializer
  last             \* the call just made on the router and its outcome

vars == <<impl, definitions, defaultBaseUrl, querySerializer, last>>

RouteDefinition(path, params, query) == [path |-> path, params |-> params, query |-> query]

\* Map.has / Map.get / Map.set / Map.keys on the entries in insertion order
MapHas(defs, path) == \E i \in 1..Len(defs) : defs[i].path = path
MapGet(defs, path) == defs[CHOOSE i \in 1..Len(defs) : defs[i].path = path]
\* A variant of Map.set that keeps the value a key already has.
MapSetKeepsFirst(defs, def) ==
  IF \E i \in 1..Len(defs) : defs[i].path = def.path THEN defs ELSE Append(defs, def)

\* A variant of Map.set that moves a key that is set again to the end.
MapSetMovesToEnd(defs, def) ==
  Append(SelectSeq(defs, LAMBDA d : d.path # def.path), def)

\* A variant of Map.set that drops the other entries when a key is set again.
MapSetForgets(defs, def) ==
  IF \E i \in 1..Len(defs) : defs[i].path = def.path THEN <<def>> ELSE Append(defs, def)

MapSet(defs, def) ==
  IF MapHas(defs, def.path)
  THEN [i \in 1..Len(defs) |-> IF defs[i].path = def.path THEN def ELSE defs[i]]
  ELSE Append(defs, def)
MapKeys(defs) == [i \in 1..Len(defs) |-> defs[i].path]

\* Router.register: the Map and the warnings after registering defs in order.
RECURSIVE RegisterAll(_, _, _)
RegisterAll(defs, new, warnings) ==
  IF new = <<>> THEN [definitions |-> defs, warnings |-> warnings]
  ELSE RegisterAll(MapSet(defs, Head(new)), Tail(new),
                   IF MapHas(defs, Head(new).path)
                   THEN Append(warnings, Head(new).path) ELSE warnings)

\* The end of the longest run of identifier characters starting at i.
RECURSIVE RunEnd(_, _)
RunEnd(s, i) ==
  IF i + 1 <= Len(s) /\ s[i + 1] \in IdentChars THEN RunEnd(s, i + 1) ELSE i

\* Router.extractParamNames: the captures of /:([a-zA-Z0-9_]+)/g from index i on.
RECURSIVE MatchAll(_, _)
MatchAll(s, i) ==
  IF i > Len(s) THEN <<>>
  ELSE IF s[i] = ":" /\ i + 1 <= Len(s) /\ s[i + 1] \in IdentChars
  THEN <<SubSeq(s, i + 1, RunEnd(s, i + 1))>> \o MatchAll(s, RunEnd(s, i + 1) + 1)
  ELSE MatchAll(s, i + 1)

\* The names of a list without the repetitions of a name, seen being the
\* names met so far.
RECURSIVE Distinct(_, _)
Distinct(names, seen) ==
  IF names = <<>> THEN <<>>
  ELSE IF Head(names) \in seen THEN Distinct(Tail(names), seen)
  ELSE <<Head(names)>> \o Distinct(Tail(names), seen \cup {Head(names)})

\* A variant of the extraction that lists a name once.
extractParamNamesOnce(path) == Distinct(MatchAll(path, 1), {})

extractParamNames(path) == MatchAll(path, 1)

NotRegistered(path) == [kind |-> "NotRegistered", path |-> path]
\* route is Some(path) for the check of validateInputs, whose message names the
\* route, and Absent for the check of buildPathAndQuery.
MissingParameter(name, route) == [kind |-> "MissingParameter", name |-> name, route |-> route]
NoBaseUrl == [kind |-> "NoBaseUrl"]

\* A variant of the presence loop that takes a key whose value is null or
\* undefined for missing.
FirstMissingNullish(names, params) ==
  LET miss == {i \in 1..Len(names) :
                 ~HasKey(params, names[i]) \/ Get(params, names[i]).t \in {"null", "undef"}}
  IN IF miss = {} THEN <<>> ELSE names[CHOOSE i \in miss : \A j \in miss : i <= j]

\* A variant of the presence loop that reports the last missing name.
FirstMissingReportsLast(names, params) ==
  LET miss == {i \in 1..Len(names) : ~HasKey(params, names[i])}
  IN IF miss = {} THEN <<>> ELSE names[CHOOSE i \in miss : \A j \in miss : j <= i]

\* The presence loop of validateInputs: the name it raises for, which is the
\* first of names that is not a key of params; <<>> when it raises for none.
FirstMissing(names, params) ==
  LET miss == {i \in 1..Len(names) : ~HasKey(params, names[i])}
  IN IF miss = {} THEN <<>> ELSE names[CHOOSE i \in miss : \A j \in miss : i <= j]

\* options.params || {}
OrEmpty(arg) == IF arg.present THEN arg.v ELSE Obj(<<>>)

\* A variant of the lookup that makes up a schema-less definition for an
\* unknown template.
LookupLenient(defs, template) ==
  IF MapHas(defs, template) THEN Some(MapGet(defs, template))
  ELSE Some(RouteDefinition(template, NoSchema, NoSchema))

\* this.definitions.get(options.path): the definition, or undefined
Lookup(defs, template) ==
  IF MapHas(defs, template) THEN Some(MapGet(defs, template)) ELSE Absent

\* A variant of the slot that validates but goes on with the raw input.
ValidateSlotKeepsRaw(slot, schema, raw) ==
  IF Truthy(schema) /\ standardValidate(slot, schema, raw).ok
  THEN Ok(raw, <<Call(slot, "standard", raw)>>)
  ELSE IF Truthy(schema) THEN standardValidate(slot, schema, raw)
  ELSE Ok(raw, <<>>)

\* router.ts: one slot of Router.validateInputs, params or query:
\*   let validated = raw; if (schema) validated = standardValidate(schema, raw)
ValidateSlot(slot, schema, raw) ==
  IF Truthy(schema) THEN standardValidate(slot, schema, raw) ELSE Ok(raw, <<>>)

\* The same slot in the earlier Router:
\*   if (schema) { const parseFn = createParseFn(schema); validated = await parseFn(raw) }
ValidateSlotLegacy(slot, schema, raw) ==
  IF Truthy(schema) THEN Await(ParseFn(slot, schema, raw)) ELSE Ok(raw, <<>>)

\* A variant of the slot test that takes the null marker for a schema.
ValidateSlotOfNullAsSchema(class, slot, schema, raw) ==
  IF schema.kind = "absent" THEN Ok(raw, <<>>)
  ELSE IF class = "standard" THEN standardValidate(slot, schema, raw)
  ELSE Await(ParseFn(slot, schema, raw))

\* The validation of one slot by the Router class of the instance.
ValidateSlotOf(class, slot, schema, raw) ==
  IF class = "standard" THEN ValidateSlot(slot, schema, raw)
  ELSE ValidateSlotLegacy(slot, schema, raw)

\* Router.validateInputs, the return statement after both validations
Validated(definition, vp, vq) ==
  IF ~vq.ok THEN Fail(vq.error, vp.calls \o vq.calls)
  ELSE Ok([definition |-> definition, params |-> vp.value, query |-> vq.value],
          vp.calls \o vq.calls)

\* A variant of validateInputs that validates the query also after the params
\* were rejected, and raises the params error afterwards.
AfterParamsRunsQuery(class, definition, options, vp) ==
  IF ~vp.ok
  THEN Fail(vp.error,
            vp.calls \o ValidateSlotOf(class, "query", definition.query,
                                       OrEmpty(options.query)).calls)
  ELSE Validated(definition, vp,
                 ValidateSlotOf(class, "query", definition.query, OrEmpty(options.query)))

\* Router.validateInputs from the query validation on
AfterParams(class, definition, options, vp) ==
  IF ~vp.ok THEN vp
  ELSE Validated(definition, vp,
                 ValidateSlotOf(class, "query", definition.query, OrEmpty(options.query)))

\* Router.validateInputs from the presence loop on
AfterPresence(class, definition, options, missing) ==
  IF missing # <<>> THEN Fail(MissingParameter(missing, Some(options.path)), <<>>)
  ELSE AfterParams(class, definition, options,
                   ValidateSlotOf(class, "params", definition.params,
                                  OrEmpty(options.params)))

\* A variant of validateInputs whose presence loop looks at what the params
\* schema makes of the raw params.
AfterLookupChecksOutput(class, found, options) ==
  IF ~found.present THEN Fail(NotRegistered(options.path), <<>>)
  ELSE AfterPresence(class, found.v, options,
                     FirstMissing(extractParamNames(found.v.path),
                                  IF ValidateSlotOf(class, "params", found.v.params,
                                                    OrEmpty(options.params)).ok
                                  THEN ValidateSlotOf(class, "params", found.v.params,
                                                      OrEmpty(options.params)).value
                                  ELSE OrEmpty(options.params)))

\* Router.validateInputs from the lookup on
AfterLookup(class, found, options) ==
  IF ~found.present THEN Fail(NotRegistered(options.path), <<>>)
  ELSE AfterPresence(class, found.v, options,
                     FirstMissing(extractParamNames(found.v.path), OrEmpty(options.params)))

\* router.ts: Router.validateInputs (the two Router classes differ in
\* ValidateSlotOf alone)
validateInputs(class, defs, options) == AfterLookup(class, Lookup(defs, options.path), options)

\* A variant of the substituted value that is not percent-encoded.
EncodedValueRaw(params, name) == String(Get(params, name))

\* encodeURIComponent(String(params[paramName]))
EncodedValue(params, name) == encodeURIComponent(String(Get(params, name)))

\* A variant of the composition that appends the "?" whatever the query string.
ComposeAlways(finalPath, queryString) == finalPath \o <<"?">> \o queryString

\* queryString ? `${finalPath}?${queryString}` : finalPath
Compose(finalPath, queryString) ==
  IF queryString # <<>> THEN finalPath \o <<"?">> \o queryString ELSE finalPath

\* A variant of the substitution loop without its presence check.
RECURSIVE SubstituteUnchecked(_, _, _)
SubstituteUnchecked(pathString, names, params) ==
  IF names = <<>> THEN Ok(pathString, <<>>)
  ELSE IF params.t # "obj"
  THEN Fail(TypeError("'in' applied to a non-object"), <<>>)
  ELSE SubstituteUnchecked(StringReplace(pathString, <<":">> \o Head(names),
                                         EncodedValue(params, Head(names))),
                           Tail(names), params)

\* The substitution loop of Router.buildPathAndQuery over the remaining names.
RECURSIVE Substitute(_, _, _)
Substitute(pathString, names, params) ==
  IF names = <<>> THEN Ok(pathString, <<>>)
  ELSE IF params.t # "obj"
  THEN Fail(TypeError("'in' applied to a non-object"), <<>>)
  ELSE IF ~HasKey(params, Head(names))
  THEN Fail(MissingParameter(Head(names), Absent), <<>>)
  ELSE Substitute(StringReplace(pathString, <<":">> \o Head(names),
                                EncodedValue(params, Head(names))),
                  Tail(names), params)

\* A variant of the final path that puts a slash in front whatever the path.
FinalPathAlways(pathString) == <<"/">> \o pathString

\* pathString.startsWith("/") ? pathString : `/${pathString}`
FinalPath(pathString) ==
  IF StartsWith(pathString, <<"/">>) THEN pathString ELSE <<"/">> \o pathString

\* Router.buildPathAndQuery from the serializer call on
AfterSerialize(serializer, query, pathString, ser) ==
  IF ~ser.ok THEN ser
  ELSE Ok(Str(Compose(FinalPath(pathString), ser.value.s)),
          <<[fn |-> "serialize", slot |-> "query", cap |-> serializer, input |-> query]>>)

\* Router.buildPathAndQuery from the end of the substitution loop on
AfterSubstitute(serializer, query, sub) ==
  IF ~sub.ok THEN sub
  ELSE AfterSerialize(serializer, query, sub.value, Serialize(serializer, query))

\* router.ts: Router.buildPathAndQuery
buildPathAndQuery(serializer, definition, params, query) ==
  AfterSubstitute(serializer, query,
                  Substitute(definition.path, extractParamNames(definition.path), params))

\* The outcome of a call whose first part made the calls of v and whose
\* second part ended as b.
Then(v, b) ==
  IF b.ok THEN Ok(b.value, v.calls \o b.calls) ELSE Fail(b.error, v.calls \o b.calls)

\* Router.path from the return of validateInputs on
AfterValidate(serializer, v) ==
  IF ~v.ok THEN v
  ELSE Then(v, buildPathAndQuery(serializer, v.value.definition, v.value.params,
                                 v.value.query))

\* router.ts: Router.path
path(class, defs, serializer, options) ==
  AfterValidate(serializer, validateInputs(class, defs, options))

\* A base URL string is its origin followed by the characters of its path;
\* the empty string is <<>>.  new URL(relative, base) with a relative reference
\* that begins with one "/" keeps the origin of the base and takes path and
\* query from the reference.
IsAbsoluteUrl(base) == base # <<>> /\ Len(Head(base)) > 1

SplitAt(relative, base, q) ==
  Ok([t |-> "url", s |-> <<>>, origin |-> Head(base),
      pathname |-> IF q = 0 THEN relative ELSE SubSeq(relative, 1, q - 1),
      search |-> IF q = 0 THEN <<>> ELSE SubSeq(relative, q, Len(relative))], <<>>)

NewURL(relative, base) ==
  IF ~IsAbsoluteUrl(base) THEN Fail(TypeError("Invalid URL"), <<>>)
  ELSE SplitAt(relative, base, IndexOf(relative, <<"?">>))

Href(url) == Str(<<url.origin>> \o url.pathname \o url.search)

\* A variant of the base URL choice that prefers the constructor's.
EffectiveBaseUrlPrefersDefault(optionBase, default) ==
  IF default.present THEN default ELSE optionBase

\* options.baseUrl ?? this.defaultBaseUrl
EffectiveBaseUrl(optionBase, default) == IF optionBase.present THEN optionBase ELSE default

\* Router.URL from the base URL check on
Resolve(p, effectiveBaseUrl) ==
  IF ~effectiveBaseUrl.present \/ effectiveBaseUrl.v = <<>> THEN Fail(NoBaseUrl, p.calls)
  ELSE Then(p, NewURL(p.value.s, effectiveBaseUrl.v))

\* Router.URL from the return of buildPathAndQuery on
AfterPath(p, default, options) ==
  IF ~p.ok THEN p ELSE Resolve(p, EffectiveBaseUrl(options.baseUrl, default))

\* A variant of Router.URL that looks for the base URL before anything else.
URLChecksBaseFirst(class, defs, serializer, default, options) ==
  IF ~EffectiveBaseUrl(options.baseUrl, default).present
       \/ EffectiveBaseUrl(options.baseUrl, default).v = <<>>
  THEN Fail(NoBaseUrl, <<>>)
  ELSE AfterPath(path(class, defs, serializer, options), default, options)

\* router.ts: Router.URL
URL(class, defs, serializer, default, options) ==
  AfterPath(path(class, defs, serializer, options), default, options)

\* url.href of what Router.URL returned
HrefOf(u) == IF u.ok THEN Ok(Href(u.value), u.calls) ELSE u

\* router.ts: Router.href
href(class, defs, serializer, default, options) ==
  HrefOf(URL(class, defs, serializer, default, options))

(***************************************************************************)
(* The routes, validators and requests the router is exercised with        *)
(***************************************************************************)

\* At most MaxRoutes distinct templates are registered, and one register call
\* takes at most MaxDefinitions definitions.
MaxRoutes == 2
MaxDefinitions == 2

T_HOME == <<"/", "h">>                       \* "/h"
T_USER == <<"/", "u", "/", ":", "i", "d">>   \* "/u/:id"
T_PAIR == <<"/", ":", "a", "/", ":", "a", "b">>  \* "/:a/:ab"
T_BARE == <<"x", "/", ":", "i", "d">>        \* "x/:id", no leading slash
T_MARK == <<"/", "s", "?", "k">>             \* "/s?k", a literal question mark

Templates == {T_HOME, T_USER, T_PAIR, T_BARE, T_MARK}

StdCheck == Schema({"standard"}, "check", "void")
StdLower == Schema({"standard"}, "lower", "void")
StdThrow == Schema({"standard"}, "throw", "void")
ZodCheck == Schema({"parse", "standard"}, "check", "void")
FnCheck == Schema({"call"}, "check", "void")
FnThrow == Schema({"call"}, "throw", "void")
YupCheck == Schema({"validateSync"}, "check", "void")
StructCheck == Schema({"create"}, "check", "void")
ScaleCheck == Schema({"assert"}, "check", "void")
ArkCheck == Schema({"call", "assert", "standard"}, "check", "data")

\* Route definitions for a router that validates with standardValidate.
StandardRoutes ==
  { RouteDefinition(T_HOME, NoSchema, NoSchema),
    RouteDefinition(T_HOME, NoSchema, StdCheck),
    RouteDefinition(T_HOME, NoSchema, StdLower),
    RouteDefinition(T_USER, NoSchema, NoSchema),
    RouteDefinition(T_USER, StdCheck, NoSchema),
    RouteDefinition(T_USER, StdLower, StdLower),
    RouteDefinition(T_USER, StdCheck, StdCheck),
    RouteDefinition(T_USER, StdThrow, NoSchema),
    RouteDefinition(T_USER, ZodCheck, NoSchema),
    RouteDefinition(T_PAIR, NullSchema, NoSchema),
    RouteDefinition(T_BARE, NoSchema, NullSchema),
    RouteDefinition(T_MARK, NoSchema, NoSchema) }

\* Route definitions for the earlier router, which validates with createParseFn.
LegacyRoutes ==
  { RouteDefinition(T_HOME, NoSchema, NoSchema),
    RouteDefinition(T_HOME, NoSchema, FnCheck),
    RouteDefinition(T_HOME, NoSchema, ZodCheck),
    RouteDefinition(T_USER, NoSchema, NoSchema),
    RouteDefinition(T_USER, FnCheck, NoSchema),
    RouteDefinition(T_USER, FnThrow, NoSchema),
    RouteDefinition(T_USER, ZodCheck, YupCheck),
    RouteDefinition(T_USER, YupCheck, NoSchema),
    RouteDefinition(T_USER, StructCheck, NoSchema),
    RouteDefinition(T_USER, ScaleCheck, NoSchema),
    RouteDefinition(T_USER, ArkCheck, NoSchema),
    RouteDefinition(T_USER, StdCheck, StdLower),
    RouteDefinition(T_PAIR, NullSchema, NoSchema) }

RoutesOf(class) == IF class = "standard" THEN StandardRoutes ELSE LegacyRoutes

A == <<"a">>
AB == <<"a", "b">>

ParamsArgs ==
  { Absent,
    Some(Obj(<<>>)),
    Some(Obj(<<Entry(ID, Str(<<"4", "2">>))>>)),
    Some(Obj(<<Entry(ID, Str(<<"a", " ", "b">>))>>)),
    Some(Obj(<<Entry(ID, Str(<<"A", "@", "#", "/", ":">>))>>)),
    Some(Obj(<<Entry(ID, BadValue)>>)),
    Some(Obj(<<Entry(A, Str(<<"x">>))>>)),
    Some(Obj(<<Entry(AB, Str(<<":", "a">>)), Entry(A, Num(<<"7">>))>>)) }

Q == <<"q">>
TAGS == <<"t">>

QueryArgs ==
  { Absent,
    Some(Obj(<<>>)),
    Some(Obj(<<Entry(Q, Str(<<"A", " ", "b">>))>>)),
    Some(Obj(<<Entry(Q, BadValue)>>)),
    Some(Obj(<<Entry(Q, Undefined)>>)),
    Some(Obj(<<Entry(TAGS, Arr(<<Str(<<"a">>), Str(<<"b">>)>>)), Entry(Q, Null)>>)) }

BASE_API == <<"https://api.example.com">>
BASE_APP == <<"https://app.example.com", "/", "v", "1">>

ConstructorBaseUrls == {Absent, Some(BASE_API)}
CallBaseUrls == {Absent, Some(<<>>), Some(BASE_APP)}
Serializers == {"default", "native", "custom"}

PathOptions ==
  { [path |-> t, params |-> p, query |-> q, baseUrl |-> Absent] :
      t \in Templates, p \in ParamsArgs, q \in QueryArgs }

UrlOptions ==
  { [path |-> t, params |-> p, query |-> q, baseUrl |-> b] :
      t \in Templates, p \in ParamsArgs, q \in QueryArgs, b \in CallBaseUrls }

\* The arrays of 1..n route definitions drawn from routes.
RECURSIVE Arrays(_, _)
Arrays(routes, n) ==
  IF n = 0 THEN {<<>>}
  ELSE LET shorter == Arrays(routes, n - 1)
       IN shorter \cup {Append(a, d) : a \in {x \in shorter : Len(x) = n - 1}, d \in routes}

(***************************************************************************)
(* The router as a state machine                                           *)
(***************************************************************************)

NoCall == [op |-> "none"]

Outcome(op, options, outcome) ==
  [op |-> op, options |-> options, ok |-> outcome.ok,
   value |-> IF outcome.ok THEN outcome.value ELSE Undefined,
   error |-> IF outcome.ok THEN [kind |-> "none"] ELSE outcome.error,
   calls |-> outcome.calls]

\* new Router(options): an empty registry, the base URL and serializer options.
Construct(class) ==
  /\ impl = class
  /\ definitions = <<>>
  /\ defaultBaseUrl \in ConstructorBaseUrls
  /\ querySerializer \in Serializers
  /\ last = NoCall

Init == Construct("standard")
InitLegacy == Construct("legacy")

\* router.register(defs)
Register ==
  /\ last = NoCall
  /\ \E defs \in Arrays(RoutesOf(impl), MaxDefinitions) \ {<<>>} :
       LET r == RegisterAll(definitions, defs, <<>>)
       IN /\ Len(r.definitions) <= MaxRoutes
          /\ definitions' = r.definitions
          /\ last' = [op |-> "register", defs |-> defs, warnings |-> r.warnings,
                      before |-> definitions]
  /\ UNCHANGED <<impl, defaultBaseUrl, querySerializer>>

\* A variant of router.path(options) that takes the route it resolved out of
\* the registry.
PathConsumesRoute ==
  /\ last = NoCall
  /\ \E options \in PathOptions :
       /\ last' = Outcome("path", options, path(impl, definitions, querySerializer, options))
       /\ definitions' = SelectSeq(definitions, LAMBDA d : d.path # options.path)
  /\ UNCHANGED <<impl, defaultBaseUrl, querySerializer>>

\* router.path(options)
Path ==
  /\ last = NoCall
  /\ \E options \in PathOptions :
       last' = Outcome("path", options, path(impl, definitions, querySerializer, options))
  /\ UNCHANGED <<impl, definitions, defaultBaseUrl, querySerializer>>

\* router.URL(options)
Url ==
  /\ last = NoCall
  /\ \E options \in UrlOptions :
       last' = Outcome("URL", options,
                       URL(impl, definitions, querySerializer, defaultBaseUrl, options))
  /\ UNCHANGED <<impl, definitions, defaultBaseUrl, querySerializer>>

\* router.href(options)
HrefCall ==
  /\ last = NoCall
  /\ \E options \in UrlOptions :
       last' = Outcome("href", options,
                       href(impl, definitions, querySerializer, defaultBaseUrl, options))
  /\ UNCHANGED <<impl, definitions, defaultBaseUrl, querySerializer>>

\* router.paths()
Paths ==
  /\ last = NoCall
  /\ last' = [op |-> "paths", value |-> MapKeys(definitions)]
  /\ UNCHANGED <<impl, definitions, defaultBaseUrl, querySerializer>>

\* The caller has the outcome of its call and goes on to the next one.
Return ==
  /\ last # NoCall
  /\ last' = NoCall
  /\ UNCHANGED <<impl, definitions, defaultBaseUrl, querySerializer>>

Next == Register \/ Path \/ Url \/ HrefCall \/ Paths \/ Return

Spec == Init /\ [][Next]_vars
SpecLegacy == InitLegacy /\ [][Next]_vars

\* The caller of path() makes the same call once more, right away.
PathAgain ==
  /\ last.op = "path"
  /\ last' = [op |-> "path again", options |-> last.options, first |-> last,
              second |-> Outcome("path", last.options,
                                 path(impl, definitions, querySerializer, last.options))]
  /\ UNCHANGED <<impl, definitions, defaultBaseUrl, querySerializer>>

\* Routers on which every path() call may be repeated.
NextRepeat == Register \/ Path \/ PathAgain \/ Return
SpecRepeat == Init /\ [][NextRepeat]_vars

\* The validators the adapters are exercised with on their own: every set of
\* capabilities, with each validation logic and each kind of assert.
AdapterSchemas ==
  { Schema(caps, beh, ret) :
      caps \in SUBSET Capabilities, beh \in {"accept", "check", "throw", "async"},
      ret \in {"void", "data"} }

AdapterInputs == { Obj(<<Entry(ID, DefaultId)>>), Obj(<<Entry(ID, BadValue)>>) }

\* The adapter of the Router class validates an input with a validator.
AdapterCall ==
  /\ last = NoCall
  /\ \E schema \in AdapterSchemas, input \in AdapterInputs :
       last' = Outcome("validate", [schema |-> schema, input |-> input],
                       ValidateSlotOf(impl, "params", schema, input))
  /\ UNCHANGED <<impl, definitions, defaultBaseUrl, querySerializer>>

\* An array in a query holds at most MaxItems items.
MaxItems == 2

Scalars == { Str(<<"a">>), Str(<<"a", " ", "b">>), Num(<<"7">>) }
QueryValues == Scalars \cup {Null, Undefined} \cup {Arr(a) : a \in Arrays(Scalars, MaxItems)}

\* The queries the named serializers are exercised with on their own: none,
\* one or two keys, each with a scalar, null, undefined or an array of scalars.
SerializerQueries ==
  {Obj(<<>>)}
    \cup {Obj(<<Entry(TAGS, v)>>) : v \in QueryValues}
    \cup {Obj(<<Entry(TAGS, v), Entry(Q, w)>>) : v \in QueryValues, w \in QueryValues}

NamedSerializers == {"brackets", "indices", "comma", "native"}

\* querySerializers[name](query)
SerializerCall ==
  /\ last = NoCall
  /\ \E query \in SerializerQueries :
       last' = Outcome("serialize", [query |-> query], Serialize(querySerializer, query))
  /\ UNCHANGED <<impl, definitions, defaultBaseUrl, querySerializer>>

\* The adapters and the named serializers exercised on their own, outside a
\* route: impl is the adapter in use, querySerializer the serializer.
InitParts ==
  /\ impl \in {"standard", "legacy"}
  /\ definitions = <<>>
  /\ defaultBaseUrl = Absent
  /\ querySerializer \in NamedSerializers
  /\ last = NoCall

NextParts == AdapterCall \/ SerializerCall \/ Return
SpecParts == InitParts /\ [][NextParts]_vars

T_LEAD == <<":", "i", "d", "/", "x">>        \* ":id/x", a placeholder in front
T_NONE == <<>>                               \* "", the empty template

\* Routes without schemas whose templates differ in how they begin.
SlashRoutes == { RouteDefinition(t, NoSchema, NoSchema) : t \in {T_USER, T_BARE, T_LEAD, T_NONE} }

SlashOptions ==
  { [path |-> t, params |-> p, query |-> q, baseUrl |-> Absent] :
      t \in {T_USER, T_BARE, T_LEAD, T_NONE},
      p \in { Absent, Some(Obj(<<Entry(ID, Str(<<>>))>>)),
              Some(Obj(<<Entry(ID, Str(<<"4", "2">>))>>)),
              Some(Obj(<<Entry(ID, Str(<<"/", "a">>))>>)) },
      q \in { Absent, Some(Obj(<<Entry(Q, Str(<<"a">>))>>)) } }

\* router.register(defs) with routes of SlashRoutes
RegisterSlash ==
  /\ last = NoCall
  /\ \E defs \in Arrays(SlashRoutes, MaxDefinitions) \ {<<>>} :
       /\ Len(RegisterAll(definitions, defs, <<>>).definitions) <= MaxRoutes
       /\ definitions' = RegisterAll(definitions, defs, <<>>).definitions
       /\ last' = [op |-> "register", defs |-> defs,
                   warnings |-> RegisterAll(definitions, defs, <<>>).warnings,
                   before |-> definitions]
  /\ UNCHANGED <<impl, defaultBaseUrl, querySerializer>>

\* router.path(options) with options of SlashOptions
PathSlash ==
  /\ last = NoCall
  /\ \E options \in SlashOptions :
       last' = Outcome("path", options, path(impl, definitions, querySerializer, options))
  /\ UNCHANGED <<impl, definitions, defaultBaseUrl, querySerializer>>

\* Routers whose templates begin with a slash, a literal, a placeholder or
\* nothing at all.
NextSlash == RegisterSlash \/ PathSlash \/ Return
SpecSlash == Init /\ [][NextSlash]_vars

\* Routes whose schemas supply a default for id, strip id, reject "bad", or are
\* objects that expose none of the capabilities.
SchemaRoutes ==
  { RouteDefinition(T_HOME, NoSchema, NoSchema),
    RouteDefinition(T_HOME, NoSchema, Schema({}, "accept", "void")),
    RouteDefinition(T_USER, NoSchema, NoSchema),
    RouteDefinition(T_USER, Schema({}, "accept", "void"), StdCheck),
    RouteDefinition(T_USER, Schema({"standard"}, "default", "void"), StdCheck),
    RouteDefinition(T_USER, Schema({"standard"}, "strip", "void"), StdCheck) }

SchemaOptions ==
  { [path |-> t, params |-> p, query |-> q, baseUrl |-> Absent] :
      t \in {T_HOME, T_USER},
      p \in { Absent, Some(Obj(<<>>)),
              Some(Obj(<<Entry(ID, Str(<<"4", "2">>))>>)),
              Some(Obj(<<Entry(ID, Null)>>)),
              Some(Obj(<<Entry(ID, Undefined)>>)),
              Some(Obj(<<Entry(A, Str(<<"x">>))>>)) },
      q \in { Absent, Some(Obj(<<Entry(Q, Str(<<"a">>))>>)),
              Some(Obj(<<Entry(Q, BadValue)>>)) } }

\* router.register(defs) with routes of SchemaRoutes
RegisterSchemas ==
  /\ last = NoCall
  /\ \E defs \in Arrays(SchemaRoutes, MaxDefinitions) \ {<<>>} :
       /\ Len(RegisterAll(definitions, defs, <<>>).definitions) <= MaxRoutes
       /\ definitions' = RegisterAll(definitions, defs, <<>>).definitions
       /\ last' = [op |-> "register", defs |-> defs,
                   warnings |-> RegisterAll(definitions, defs, <<>>).warnings,
                   before |-> definitions]
  /\ UNCHANGED <<impl, defaultBaseUrl, querySerializer>>

\* router.path(options) with options of SchemaOptions
PathSchemas ==
  /\ last = NoCall
  /\ \E options \in SchemaOptions :
       last' = Outcome("path", options, path(impl, definitions, querySerializer, options))
  /\ UNCHANGED <<impl, definitions, defaultBaseUrl, querySerializer>>

\* Routers of either class with the routes of SchemaRoutes.
NextSchemas == RegisterSchemas \/ PathSchemas \/ Return
SpecSchemas == Init /\ [][NextSchemas]_vars
SpecSchemasLegacy == InitLegacy /\ [][NextSchemas]_vars

\* A template of the routers below has at most MaxTemplate characters.
MaxTemplate == 5

\* Every template of ":", "/", "a" and "b".
TokenTemplates == UNION { [1..n -> {":", "/", "a", "b"}] : n \in 0..MaxTemplate }

\* router.register([{ path: t }]) on a router without routes
RegisterTemplate ==
  /\ last = NoCall
  /\ definitions = <<>>
  /\ \E t \in TokenTemplates :
       /\ definitions' =
            RegisterAll(definitions, <<RouteDefinition(t, NoSchema, NoSchema)>>, <<>>).definitions
       /\ last' = [op |-> "register", defs |-> <<RouteDefinition(t, NoSchema, NoSchema)>>,
                   warnings |-> <<>>, before |-> definitions]
  /\ UNCHANGED <<impl, defaultBaseUrl, querySerializer>>

\* router.path(options) on the registered template, with values for a, b and ab
PathTemplate ==
  /\ last = NoCall
  /\ definitions # <<>>
  /\ \E p \in { Obj(<<Entry(A, Str(<<"1">>)), Entry(<<"b">>, Str(<<"2">>)),
                      Entry(AB, Str(<<"3">>))>>),
                Obj(<<Entry(A, Str(<<"a">>)), Entry(<<"b">>, Str(<<"a">>)),
                      Entry(AB, Str(<<"b">>))>>),
                Obj(<<Entry(A, Str(<<":", "b">>)), Entry(<<"b">>, Str(<<"a", "b">>))>>) } :
       last' = Outcome("path",
                       [path |-> definitions[1].path, params |-> Some(p), query |-> Absent,
                        baseUrl |-> Absent],
                       path(impl, definitions, querySerializer,
                            [path |-> definitions[1].path, params |-> Some(p),
                             query |-> Absent, baseUrl |-> Absent]))
  /\ UNCHANGED <<impl, definitions, defaultBaseUrl, querySerializer>>

\* this.extractParamNames(definition.path) on the registered template
ExtractCall ==
  /\ last = NoCall
  /\ definitions # <<>>
  /\ last' = [op |-> "extract", options |-> [path |-> definitions[1].path],
              value |-> extractParamNames(definitions[1].path)]
  /\ UNCHANGED <<impl, definitions, defaultBaseUrl, querySerializer>>

\* Routers with one route, whose template is any string of TokenTemplates.
NextTokens == RegisterTemplate \/ PathTemplate \/ ExtractCall \/ Return
SpecTokens == Init /\ [][NextTokens]_vars

(***************************************************************************)
(* Properties                                                              *)
(***************************************************************************)

Resolving == last.op \in {"path", "URL", "href"}
Registered == Resolving /\ MapHas(definitions, last.options.path)
RawParams == OrEmpty(last.options.params)
RawQuery == OrEmpty(last.options.query)
Definition == MapGet(definitions, last.options.path)

\* The placeholders of a template read off its characters: a placeholder
\* starts at every ":" that is followed by an identifier character and runs
\* to the end of the identifier characters.
TokenStarts(t) == {i \in 1..(Len(t) - 1) : t[i] = ":" /\ t[i + 1] \in IdentChars}
TokenEnd(t, i) ==
  CHOOSE j \in (i + 1)..Len(t) :
    /\ \A k \in (i + 1)..j : t[k] \in IdentChars
    /\ j = Len(t) \/ t[j + 1] \notin IdentChars
TokenName(t, i) == SubSeq(t, i + 1, TokenEnd(t, i))
MissingStarts(t, params) == {i \in TokenStarts(t) : TokenName(t, i) \notin Keys(params)}

\* C1: path(), URL() and href() on a template that is not in the registry fail
\* with the "has not been registered" error for that template, whatever params,
\* query and baseUrl are passed, and invoke no validator and no serializer.
C1_UnregisteredFails ==
  (Resolving /\ ~MapHas(definitions, last.options.path)) =>
    /\ ~last.ok
    /\ last.error = NotRegistered(last.options.path)
    /\ last.calls = <<>>

\* An unregistered template resolved on a router that has routes, with params
\* and query supplied and no base URL anywhere.
C1_Witness ==
  /\ last.op = "URL"
  /\ definitions # <<>>
  /\ ~MapHas(definitions, last.options.path)
  /\ last.options.params.present /\ last.options.query.present
  /\ ~last.options.baseUrl.present /\ ~defaultBaseUrl.present
  /\ last.error.kind = "NotRegistered"

\* C2: path() on a registered template, with or without a param schema, with
\* raw params (none given counts as empty) that lack a placeholder name fails
\* with the missing-required-path-parameter error naming the leftmost
\* placeholder of the template that the params lack.
C2_FirstMissingNamed ==
  (last.op = "path" /\ Registered /\ MissingStarts(last.options.path, RawParams) # {}) =>
    LET miss == MissingStarts(last.options.path, RawParams)
        first == CHOOSE i \in miss : \A j \in miss : i <= j
    IN /\ ~last.ok
       /\ last.error.kind = "MissingParameter"
       /\ last.error.name = TokenName(last.options.path, first)

\* "/:a/:ab" built with params that have a but not ab: the error names ab.
C2_Witness ==
  /\ last.op = "path" /\ Registered
  /\ last.options.path = T_PAIR
  /\ Keys(RawParams) = {A}
  /\ last.error.kind = "MissingParameter" /\ last.error.name = AB

\* What the validation logic of the schema of a slot makes of the raw input.
IsStandard(schema) == schema.kind = "schema" /\ "standard" \in schema.caps
ParamsVerdict == Underlying(Definition.params.beh, RawParams)
QueryVerdict == Underlying(Definition.query.beh, RawQuery)
AllPresent == MissingStarts(last.options.path, RawParams) = {}
ParamsStagePasses == AllPresent /\ (Truthy(Definition.params) => ParamsVerdict.tag = "ok")
SchemaParams == IF Truthy(Definition.params) THEN ParamsVerdict.value ELSE RawParams
SchemaQuery == IF Truthy(Definition.query) THEN QueryVerdict.value ELSE RawQuery

\* The template t from index i on with every placeholder replaced by the
\* percent-encoded String of its value in params, in one pass over t.
RECURSIVE Replaced(_, _, _)
Replaced(t, i, params) ==
  IF i > Len(t) THEN <<>>
  ELSE IF i \in TokenStarts(t)
  THEN encodeURIComponent(String(Get(params, TokenName(t, i))))
         \o Replaced(t, TokenEnd(t, i) + 1, params)
  ELSE <<t[i]>> \o Replaced(t, i + 1, params)

\* A path with the leading slash the result always has.
WithSlash(s) == IF s # <<>> /\ s[1] = "/" THEN s ELSE <<"/">> \o s

\* r is p alone or p followed by "?" and a query string.
PathOf(r, p) == r = p \/ (Len(r) > Len(p) /\ SubSeq(r, 1, Len(p) + 1) = p \o <<"?">>)

HasMessage(error, issues) ==
  \A k \in 1..Len(issues) :
    \E m \in 1..Len(error.message) : error.message[m] = issues[k].message

\* C3: path() on a route whose params schema is tagged-standard and answers
\* the raw params with issues, or whose params pass and whose query schema is
\* tagged-standard and answers the raw query with issues, returns no path: it
\* fails with the validation error whose message holds every issue's message.
C3_IssuesFailWithMessages ==
  (last.op = "path" /\ Registered) =>
    /\ (AllPresent /\ IsStandard(Definition.params) /\ ParamsVerdict.tag = "fail") =>
         /\ ~last.ok /\ last.value = Undefined
         /\ last.error.kind = "StandardSchemaV1Error"
         /\ HasMessage(last.error, ParamsVerdict.issues)
    /\ (ParamsStagePasses /\ IsStandard(Definition.query) /\ QueryVerdict.tag = "fail") =>
         /\ ~last.ok /\ last.value = Undefined
         /\ last.error.kind = "StandardSchemaV1Error"
         /\ HasMessage(last.error, QueryVerdict.issues)

\* A query schema answered with issues after the params schema had accepted.
C3_Witness ==
  /\ last.op = "path" /\ Registered
  /\ IsStandard(Definition.params) /\ ParamsStagePasses
  /\ IsStandard(Definition.query) /\ QueryVerdict.tag = "fail"
  /\ last.error.kind = "StandardSchemaV1Error"
  /\ \E m \in 1..Len(last.error.message) : last.error.message[m] = "Invalid email format"

\* The validator shapes whose own method is the parse function.
RaisingRules == {"callable-assert", "call", "parse", "validateSync", "create", "assert"}
\* The error the underlying validator raises for verdict u.
Raised(u) == IF u.tag = "fail" THEN LibraryError(u.issues) ELSE u.error

\* C4: on the Router that adapts validators with createParseFn, path() on a
\* route whose params (or, the params having passed, query) validator is of
\* the callable, parse, validateSync, create or assert shape and raises for
\* the raw input returns no path and fails with the very error the validator
\* raised.
C4_UnderlyingErrorUnchanged ==
  (last.op = "path" /\ Registered) =>
    /\ (/\ AllPresent /\ Truthy(Definition.params)
        /\ createParseFn(Definition.params) \in RaisingRules
        /\ ParamsVerdict.tag \in {"fail", "throw"}) =>
         /\ ~last.ok /\ last.value = Undefined
         /\ last.error = Raised(ParamsVerdict)
    /\ (/\ ParamsStagePasses /\ Truthy(Definition.query)
        /\ createParseFn(Definition.query) \in RaisingRules
        /\ QueryVerdict.tag \in {"fail", "throw"}) =>
         /\ ~last.ok /\ last.value = Undefined
         /\ last.error = Raised(QueryVerdict)

\* A plain function validator that raised an error of its own.
C4_Witness ==
  /\ impl = "legacy" /\ last.op = "path" /\ Registered /\ AllPresent
  /\ Definition.params = FnThrow
  /\ ~last.ok /\ last.error = [kind |-> "ValidatorCrash"]

\* C5: path() on a route whose params schema is absent or the null marker,
\* with raw params that have every placeholder, runs no params validator and
\* fails neither for a missing parameter nor before the query is validated;
\* when it returns, the path is the template with the raw params substituted.
C5_RawParamsPassThrough ==
  (last.op = "path" /\ Registered /\ ~Truthy(Definition.params) /\ AllPresent) =>
    /\ \A i \in 1..Len(last.calls) : last.calls[i].slot # "params"
    /\ ~last.ok =>
         /\ last.error.kind # "MissingParameter"
         /\ \E i \in 1..Len(last.calls) : last.calls[i].slot = "query"
    /\ last.ok =>
         PathOf(last.value.s, WithSlash(Replaced(last.options.path, 1, RawParams)))

\* "/:a/:ab", registered with the null marker, built from a number and a
\* string that are substituted as given.
C5_Witness ==
  /\ last.op = "path" /\ Registered /\ last.ok
  /\ last.options.path = T_PAIR /\ Definition.params = NullSchema
  /\ Keys(RawParams) = {A, AB}
  /\ PathOf(last.value.s, <<"/", "7", "/", "%", "3", "A", "a">>)

\* C6: when path() returns for a route with a params schema or a query
\* schema, the values in the path are those of the params schema's output and
\* the serializer was handed, and the query string was made from, the query
\* schema's output.
C6_SchemaOutputsUsed ==
  (/\ last.op = "path" /\ Registered /\ last.ok
   /\ Truthy(Definition.params) \/ Truthy(Definition.query)) =>
    /\ last.value.s =
         Compose(WithSlash(Replaced(last.options.path, 1, SchemaParams)),
                 Serialize(querySerializer, SchemaQuery).value.s)
    /\ last.calls[Len(last.calls)].fn = "serialize"
    /\ last.calls[Len(last.calls)].input = SchemaQuery

\* Both schemas lower-case their input, and the result has the lower-cased
\* values where the raw ones had capitals.
C6_Witness ==
  /\ last.op = "path" /\ Registered /\ last.ok
  /\ Definition.params = StdLower /\ Definition.query = StdLower
  /\ SchemaParams # RawParams /\ SchemaQuery # RawQuery
  /\ querySerializer = "default"
  /\ last.value.s = <<"/", "u", "/", "a", "%", "4", "0", "%", "2", "3", "%", "2", "F",
                      "%", "3", "A", "?", "q", "=", "a", "%", "2", "0", "b">>

IdOnly(v) == Some(Obj(<<Entry(ID, Str(v))>>))

SerializerOutput == Serialize(querySerializer, SchemaQuery).value.s
SubstitutedPath == WithSlash(Replaced(last.options.path, 1, SchemaParams))

\* C8 as stated: the result of path() is the substituted path followed by "?"
\* and the serializer's output exactly when that output is not empty, and has
\* no "?" anywhere when it is empty.
C8_NoQuestionMarkWhenEmpty ==
  (last.op = "path" /\ Registered /\ last.ok) =>
    /\ SerializerOutput # <<>> <=>
         last.value.s = SubstitutedPath \o <<"?">> \o SerializerOutput
    /\ SerializerOutput = <<>> => \A i \in 1..Len(last.value.s) : last.value.s[i] # "?"

\* C8: the result of path() is the substituted path followed by "?" and the
\* serializer's output when that output is not empty, and is the substituted
\* path alone, nothing appended, when it is empty (a "?" it then has is one the
\* template spells out).
C8_QueryAppendedIffNonEmpty ==
  (last.op = "path" /\ Registered /\ last.ok) =>
    /\ SerializerOutput # <<>> =>
         last.value.s = SubstitutedPath \o <<"?">> \o SerializerOutput
    /\ SerializerOutput = <<>> => last.value.s = SubstitutedPath

\* A path built with a query whose only value is undefined: nothing appended.
C8_Witness ==
  /\ last.op = "path" /\ Registered /\ last.ok
  /\ last.options.query = Some(Obj(<<Entry(Q, Undefined)>>))
  /\ SerializerOutput = <<>>
  /\ last.value.s = <<"/", "h">>

\* The origin of what URL() or href() returned.
OriginOf(call) == IF call.op = "URL" THEN call.value.origin ELSE call.value.s[1]

\* C9: what URL() and href() return is resolved against the baseUrl of the
\* call when the call has one and against the constructor's otherwise, and no
\* call changes the router's own base URL.
C9_OverrideForOneCall ==
  /\ []((last.op \in {"URL", "href"} /\ last.ok) =>
           IF last.options.baseUrl.present
           THEN /\ last.options.baseUrl.v # <<>>
                /\ OriginOf(last) = Head(last.options.baseUrl.v)
           ELSE /\ defaultBaseUrl.present
                /\ OriginOf(last) = Head(defaultBaseUrl.v))
  /\ [][defaultBaseUrl' = defaultBaseUrl]_vars

\* An href() with an override on a router that has a base URL of its own.
C9_Witness ==
  /\ last.op = "href" /\ last.ok
  /\ defaultBaseUrl = Some(BASE_API)
  /\ last.options.baseUrl = Some(BASE_APP)
  /\ OriginOf(last) = "https://app.example.com"

\* A base URL was supplied: a string that is not the empty one.
Supplied(baseUrl) == baseUrl.present /\ baseUrl.v # <<>>

\* C10 as stated: for a registered route whose params and query pass, URL()
\* and href() fail for want of a base URL exactly when neither the call nor
\* the constructor supplied one, and never on a router constructed with a base
\* URL, whatever baseUrl the call passes, the empty string included.
C10_NoBaseUrlIffNeither ==
  (/\ last.op \in {"URL", "href"} /\ Registered
   /\ path(impl, definitions, querySerializer, last.options).ok) =>
    /\ (~last.ok /\ last.error = NoBaseUrl) <=>
         (~Supplied(last.options.baseUrl) /\ ~Supplied(defaultBaseUrl))
    /\ Supplied(defaultBaseUrl) => ~(~last.ok /\ last.error = NoBaseUrl)

\* The templates of defs from index i on that are registered again, known
\* being the templates registered before index i.
RECURSIVE RegisteredAgain(_, _, _)
RegisteredAgain(defs, i, known) ==
  IF i > Len(defs) THEN <<>>
  ELSE (IF defs[i].path \in known THEN <<defs[i].path>> ELSE <<>>)
         \o RegisteredAgain(defs, i + 1, known \cup {defs[i].path})

TemplatesOf(defs) == {defs[i].path : i \in 1..Len(defs)}
LatestIn(defs, t) ==
  defs[CHOOSE i \in 1..Len(defs) :
         defs[i].path = t /\ \A j \in 1..Len(defs) : defs[j].path = t => j <= i]

\* C11: a register call warns once, in order, for every definition whose
\* template is already registered (before the call or earlier in its array)
\* and for no other; afterwards each template of the array has the array's
\* last definition for it, whole, every other template the definition it had,
\* and a resolution validates with the schemas of that definition alone.
C11_ReRegistrationWarnsAndOverwrites ==
  /\ last.op = "register" =>
       /\ last.warnings = RegisteredAgain(last.defs, 1, TemplatesOf(last.before))
       /\ \A t \in TemplatesOf(last.defs) :
            MapHas(definitions, t) /\ MapGet(definitions, t) = LatestIn(last.defs, t)
       /\ \A t \in TemplatesOf(last.before) \ TemplatesOf(last.defs) :
            MapHas(definitions, t) /\ MapGet(definitions, t) = MapGet(last.before, t)
  /\ Registered =>
       \A i \in 1..Len(last.calls) :
         last.calls[i].fn = "validate" =>
           Truthy(IF last.calls[i].slot = "params"
                  THEN Definition.params ELSE Definition.query)

\* One array registers "/h" twice, with different query schemas, on a router
\* that has "/h" already: two warnings, and the last definition is in force.
C11_Witness ==
  /\ last.op = "register"
  /\ Len(last.defs) = 2 /\ last.defs[1].path = T_HOME /\ last.defs[2].path = T_HOME
  /\ last.defs[1] # last.defs[2]
  /\ MapHas(last.before, T_HOME) /\ MapGet(last.before, T_HOME) # last.defs[2]
  /\ last.warnings = <<T_HOME, T_HOME>>
  /\ MapGet(definitions, T_HOME) = last.defs[2]

\* The templates of defs from index i on that are registered for the first
\* time, in order, known being the templates registered before index i.
RECURSIVE RegisteredFirst(_, _, _)
RegisteredFirst(defs, i, known) ==
  IF i > Len(defs) THEN <<>>
  ELSE (IF defs[i].path \in known THEN <<>> ELSE <<defs[i].path>>)
         \o RegisteredFirst(defs, i + 1, known \cup {defs[i].path})

\* C12: a router starts with no templates; a register call leaves the
\* templates there were in their places and adds, after them, the templates
\* it registers for the first time, in the order in which they first occur; no
\* template is listed twice; and paths() returns that list.
C12_PathsInFirstRegistrationOrder ==
  /\ definitions = <<>>
  /\ [](/\ \A i, j \in 1..Len(definitions) :
             definitions[i].path = definitions[j].path => i = j
        /\ last.op = "register" =>
             MapKeys(definitions) =
               MapKeys(last.before) \o RegisteredFirst(last.defs, 1, TemplatesOf(last.before))
        /\ last.op = "paths" =>
             last.value = [i \in 1..Len(definitions) |-> definitions[i].path])

\* The first of two registered templates is registered again with another
\* definition and stays first.
C12_Witness ==
  /\ last.op = "register"
  /\ Len(last.before) = 2 /\ Len(last.defs) = 1
  /\ last.defs[1].path = last.before[1].path /\ last.defs[1] # last.before[1]
  /\ MapKeys(definitions) = MapKeys(last.before)
  /\ definitions[1] = last.defs[1]

\* C13: no step removes a template from the registry, and a step that is a
\* call of path(), URL(), href() or paths(), whatever its outcome, leaves the
\* registry, the default base URL and the query serializer as they were.
C13_RegistryOnlyGrows ==
  [][/\ \A t \in TemplatesOf(definitions) : t \in TemplatesOf(definitions')
     /\ last'.op \in {"path", "URL", "href", "paths"} =>
          /\ definitions' = definitions
          /\ defaultBaseUrl' = defaultBaseUrl
          /\ querySerializer' = querySerializer]_vars

\* A failed href() on a router with two routes, which are both still there.
C13_Witness ==
  /\ last.op = "href" /\ ~last.ok
  /\ Len(definitions) = 2
  /\ MapHas(definitions, last.options.path)

ThroughStandard ==
  /\ last.op = "validate" /\ IsStandard(last.options.schema)
  /\ impl = "standard" \/ createParseFn(last.options.schema) = "standard"

\* C15 as stated: a validation through a tagged-standard validator whose
\* validate answers with a promise fails with the asynchronous-validation-
\* not-supported error and yields no value.
C15_PromiseRejected ==
  (ThroughStandard /\ last.options.schema.beh = "async") =>
    /\ ~last.ok
    /\ last.error = AsyncNotSupported

\* The capability the fixed order selects for a validator that exposes caps.
SelectedCapability(caps) ==
  IF {"call", "assert"} \subseteq caps THEN "assert"
  ELSE IF "call" \in caps /\ "standard" \notin caps THEN "call"
  ELSE IF "parse" \in caps THEN "parse"
  ELSE IF "validateSync" \in caps THEN "validateSync"
  ELSE IF "create" \in caps THEN "create"
  ELSE IF "assert" \in caps THEN "assert"
  ELSE "standard"

\* C16: the createParseFn adapter, given a validator that exposes any non-empty
\* set of the recognized capabilities, invokes one capability, once, on the
\* input: the one of the first rule that matches in the order callable with
\* assert, callable without the standard marker, parse, validateSync, create,
\* assert, standard marker.  With parse and the standard marker it is parse
\* (unless the validator is callable with assert), and a callable with the
\* standard marker and no assert is not called as a function.
C16_FirstMatchingRule ==
  (last.op = "validate" /\ impl = "legacy" /\ last.options.schema.caps # {}) =>
    LET caps == last.options.schema.caps
    IN /\ Len(last.calls) = 1
       /\ last.calls[1].input = last.options.input
       /\ last.calls[1].cap = SelectedCapability(caps)
       /\ ({"parse", "standard"} \subseteq caps /\ ~({"call", "assert"} \subseteq caps)) =>
            last.calls[1].cap = "parse"
       /\ ({"call", "standard"} \subseteq caps /\ "assert" \notin caps) =>
            last.calls[1].cap # "call"

\* A callable with parse and the standard marker: validated through parse.
C16_Witness ==
  /\ last.op = "validate" /\ impl = "legacy"
  /\ last.options.schema.caps = {"call", "parse", "standard"}
  /\ Len(last.calls) = 1 /\ last.calls[1].cap = "parse"

IsScalar(v) == v.t \in {"str", "num"}
IsScalarArray(v) ==
  v.t = "arr" /\ v.items # <<>> /\ \A i \in 1..Len(v.items) : IsScalar(v.items[i])

\* The percent-encoding of the serializer: that of qs for brackets, indices
\* and comma, that of URLSearchParams (a space is "+") for native.
Encoded(serializer, s) == IF serializer = "native" THEN FormEncode(s) ELSE QsEncode(s)

\* The pairs claimed for key k with value v, a scalar or an array of scalars.
ClaimedPairs(serializer, k, v) ==
  IF IsScalar(v) THEN <<Encoded(serializer, k) \o <<"=">> \o Encoded(serializer, v.s)>>
  ELSE CASE serializer = "brackets" ->
              [i \in 1..Len(v.items) |->
                 Encoded(serializer, k \o <<"[", "]">>) \o <<"=">>
                   \o Encoded(serializer, v.items[i].s)]
         [] serializer = "indices" ->
              [i \in 1..Len(v.items) |->
                 Encoded(serializer,
                         k \o <<"[", <<"0", "1", "2", "3", "4">>[i], "]">>) \o <<"=">>
                   \o Encoded(serializer, v.items[i].s)]
         [] serializer = "comma" ->
              <<Encoded(serializer, k) \o <<"=">>
                  \o Encoded(serializer,
                             JoinWith([i \in 1..Len(v.items) |-> v.items[i].s], <<",">>))>>
         [] serializer = "native" ->
              [i \in 1..Len(v.items) |->
                 Encoded(serializer, k) \o <<"=">> \o Encoded(serializer, v.items[i].s)]

ClaimedQueryString(serializer, query) ==
  JoinWith(Concat([i \in 1..Len(query.entries) |->
                     ClaimedPairs(serializer, query.entries[i].k, query.entries[i].v)]),
           <<"&">>)

TagsAB == Obj(<<Entry(TAGS, Arr(<<Str(<<"a">>), Num(<<"7">>)>>))>>)

\* C17: for a query whose values are scalars and non-empty arrays of
\* scalars, each named serializer returns the pairs of its keys in insertion
\* order joined by "&", an array [v1..vn] under key giving, in array order,
\* brackets n pairs key[]=vi, indices n pairs key[i]=vi with i from 0, comma
\* the one pair key=v1,...,vn, native n pairs key=vi, keys and values encoded:
\* {t: ["a", 7]} is t%5B%5D=a&t%5B%5D=7, t%5B0%5D=a&t%5B1%5D=7, t=a%2C7 and
\* t=a&t=7.
C17_ArrayFormats ==
  (/\ last.op = "serialize"
   /\ \A i \in 1..Len(last.options.query.entries) :
        \/ IsScalar(last.options.query.entries[i].v)
        \/ IsScalarArray(last.options.query.entries[i].v)) =>
    /\ last.ok
    /\ last.value.s = ClaimedQueryString(querySerializer, last.options.query)
    /\ last.options.query = TagsAB =>
         last.value.s =
           CASE querySerializer = "brackets" ->
                  <<"t", "%", "5", "B", "%", "5", "D", "=", "a", "&",
                    "t", "%", "5", "B", "%", "5", "D", "=", "7">>
             [] querySerializer = "indices" ->
                  <<"t", "%", "5", "B", "0", "%", "5", "D", "=", "a", "&",
                    "t", "%", "5", "B", "1", "%", "5", "D", "=", "7">>
             [] querySerializer = "comma" -> <<"t", "=", "a", "%", "2", "C", "7">>
             [] querySerializer = "native" -> <<"t", "=", "a", "&", "t", "=", "7">>

\* The indices serializer on an array of two under a key that is followed by
\* a second key.
C17_Witness ==
  /\ last.op = "serialize" /\ querySerializer = "indices" /\ last.ok
  /\ Len(last.options.query.entries) = 2
  /\ last.options.query.entries[1].v = Arr(<<Str(<<"a">>), Num(<<"7">>)>>)
  /\ last.options.query.entries[2].v = Str(<<"a", " ", "b">>)
  /\ last.value.s = <<"t", "%", "5", "B", "0", "%", "5", "D", "=", "a", "&",
                      "t", "%", "5", "B", "1", "%", "5", "D", "=", "7", "&",
                      "q", "=", "a", "%", "2", "0", "b">>

\* The pair claimed for key k with value v, a scalar, null or undefined.
ClaimedPlainPair(serializer, k, v) ==
  CASE v.t = "undef" -> <<>>
    [] v.t = "null" -> <<Encoded(serializer, k) \o <<"=">>>>
    [] OTHER -> <<Encoded(serializer, k) \o <<"=">> \o Encoded(serializer, v.s)>>

\* C18 as stated: each named serializer returns the empty string for the
\* empty mapping, gives no pair for a key whose value is undefined, and gives
\* the pair "key=" for a key whose value is null.
C18_EmptyUndefinedNull ==
  (/\ last.op = "serialize"
   /\ \A i \in 1..Len(last.options.query.entries) :
        \/ IsScalar(last.options.query.entries[i].v)
        \/ last.options.query.entries[i].v \in {Null, Undefined}) =>
    /\ last.ok
    /\ last.options.query = Obj(<<>>) => last.value.s = <<>>
    /\ last.value.s =
         JoinWith(Concat([i \in 1..Len(last.options.query.entries) |->
                            ClaimedPlainPair(querySerializer, last.options.query.entries[i].k,
                                             last.options.query.entries[i].v)]),
                  <<"&">>)

\* The same for brackets, indices and comma alone.
C18_ExceptNative == querySerializer # "native" => C18_EmptyUndefinedNull

\* The same for native without the null-valued keys.
C18_NativeWithoutNull ==
  (/\ querySerializer = "native" /\ last.op = "serialize"
   /\ \A i \in 1..Len(last.options.query.entries) :
        last.options.query.entries[i].v # Null) => C18_EmptyUndefinedNull

\* The path and query of what path(), URL() or href() returned.
RelativeOf(call) ==
  CASE call.op = "path" -> call.value.s
    [] call.op = "URL" -> call.value.pathname \o call.value.search
    [] call.op = "href" -> Tail(call.value.s)

\* What the serializer the router was created with makes of a query: without
\* the option, what querySerializers.brackets makes of it; with the option,
\* what the function passed makes of it.
OptionOutput(query) ==
  CASE querySerializer = "default" -> brackets(query)
    [] querySerializer = "native" -> native(query)
    [] querySerializer = "custom" -> CustomSerializer(query)

\* C19: what path(), URL() and href() return has, after the substituted
\* path, the query string that querySerializers.brackets makes of the
\* validated query when the router was created without a querySerializer, and
\* the output of the querySerializer option, as it is, when it was created
\* with one; the serializer called is the router's, on the validated query.
C19_DefaultIsBrackets ==
  (Registered /\ last.ok) =>
    /\ RelativeOf(last) =
         IF OptionOutput(SchemaQuery) = <<>> THEN SubstitutedPath
         ELSE SubstitutedPath \o <<"?">> \o OptionOutput(SchemaQuery)
    /\ \E i \in 1..Len(last.calls) :
         /\ last.calls[i].fn = "serialize"
         /\ last.calls[i].cap = querySerializer
         /\ last.calls[i].input = SchemaQuery
         /\ \A j \in 1..Len(last.calls) : last.calls[j].fn = "serialize" => j = i

\* A router created without the option serializes an array the brackets way.
C19_Witness ==
  /\ last.op = "href" /\ Registered /\ last.ok
  /\ querySerializer = "default"
  /\ last.options.path = T_HOME /\ ~Truthy(Definition.query)
  /\ last.options.query =
       Some(Obj(<<Entry(TAGS, Arr(<<Str(<<"a">>), Str(<<"b">>)>>)), Entry(Q, Null)>>))
  /\ RelativeOf(last) = <<"/", "h", "?", "t", "%", "5", "B", "%", "5", "D", "=", "a", "&",
                          "t", "%", "5", "B", "%", "5", "D", "=", "b", "&", "q", "=">>

BeginsWithSlash(s) == s # <<>> /\ s[1] = "/"

\* C20 as stated: every string path() returns starts with "/"; for a template
\* without a leading slash it is the substituted result with one "/" put
\* before it, and for a template with a leading slash the substituted result
\* as it is.
C20_SlashByTemplate ==
  (last.op = "path" /\ Registered /\ last.ok) =>
    /\ BeginsWithSlash(last.value.s)
    /\ IF BeginsWithSlash(last.options.path)
       THEN PathOf(last.value.s, Replaced(last.options.path, 1, SchemaParams))
       ELSE PathOf(last.value.s, <<"/">> \o Replaced(last.options.path, 1, SchemaParams))

\* C20: every string path() returns starts with "/"; it is the substituted
\* result with one "/" put before it when the substituted result does not
\* start with "/", and the substituted result as it is when it does, which is
\* so for every template that starts with "/".
C20_SlashBySubstitutedPath ==
  (last.op = "path" /\ Registered /\ last.ok) =>
    /\ BeginsWithSlash(last.value.s)
    /\ IF BeginsWithSlash(Replaced(last.options.path, 1, SchemaParams))
       THEN PathOf(last.value.s, Replaced(last.options.path, 1, SchemaParams))
       ELSE PathOf(last.value.s, <<"/">> \o Replaced(last.options.path, 1, SchemaParams))
    /\ BeginsWithSlash(last.options.path) =>
         BeginsWithSlash(Replaced(last.options.path, 1, SchemaParams))

\* ":id/x" built with the empty string for id: "/x", nothing put before it.
C20_Witness ==
  /\ last.op = "path" /\ Registered /\ last.ok
  /\ last.options.path = T_LEAD
  /\ last.options.params = Some(Obj(<<Entry(ID, Str(<<>>))>>))
  /\ ~last.options.query.present
  /\ last.value.s = <<"/", "x">>

\* A validator object that is not null and matches none of the shapes.
NoShape(schema) == schema.kind = "schema" /\ schema.caps = {}

C22_PresenceBeforeSchemas ==
  (last.op = "path" /\ Registered /\ ~AllPresent) =>
    /\ ~last.ok
    /\ last.error.kind = "MissingParameter"
    /\ last.error.route = Some(last.options.path)
    /\ last.calls = <<>>

\* The params schema supplies id by default, the raw params have no id, and
\* path() has failed for the missing id without a call to a schema.
C22_Witness ==
  /\ last.op = "path" /\ Registered /\ ~AllPresent
  /\ Truthy(Definition.params) /\ Truthy(Definition.query)
  /\ ParamsVerdict.tag = "ok" /\ HasKey(ParamsVerdict.value, ID)
  /\ ~HasKey(RawParams, ID)
  /\ ~last.ok /\ last.error = MissingParameter(ID, Some(T_USER))
  /\ last.calls = <<>>

\* The params schema of the route answers the raw params with an object that
\* lacks a placeholder of the template, although the raw params have them all.
SchemaDropsPlaceholder ==
  /\ last.op = "path" /\ Registered /\ AllPresent
  /\ Truthy(Definition.params) /\ IsStandard(Definition.params)
  /\ ParamsVerdict.tag = "ok"
  /\ MissingStarts(last.options.path, ParamsVerdict.value) # {}

QueryStagePasses ==
  Truthy(Definition.query) => (IsStandard(Definition.query) /\ QueryVerdict.tag = "ok")

\* C23 as stated: when the raw params have every placeholder and the output
\* of the params schema lacks one, path() fails with the missing-parameter
\* error of the substitution.
C23_DroppedKeyFailsAtSubstitution ==
  SchemaDropsPlaceholder =>
    /\ ~last.ok
    /\ last.error.kind = "MissingParameter" /\ last.error.route = Absent

\* C23: when the raw params have every placeholder and the output of the
\* params schema lacks one, path() returns no path; it fails with the
\* missing-parameter error of the substitution, which names the first
\* placeholder the output lacks, when the query stage passes, and with the
\* error of the query schema when that schema rejects the raw query.
C23_DroppedKeyNeverBuilds ==
  SchemaDropsPlaceholder =>
    /\ ~last.ok
    /\ QueryStagePasses =>
         /\ last.error.kind = "MissingParameter" /\ last.error.route = Absent
         /\ last.error.name =
              FirstMissing(extractParamNames(last.options.path), ParamsVerdict.value)
    /\ ~QueryStagePasses => last.error.kind # "MissingParameter"

\* The schema stripped id from {id: "42"} and path() on "/u/:id" has failed
\* at the substitution for the missing id.
C23_Witness ==
  /\ SchemaDropsPlaceholder /\ QueryStagePasses
  /\ last.options.path = T_USER
  /\ RawParams = Obj(<<Entry(ID, Str(<<"4", "2">>))>>)
  /\ ParamsVerdict.value = Obj(<<>>)
  /\ ~last.ok /\ last.error = MissingParameter(ID, Absent)

\* The stage a logged call belongs to, and the place of the stage in a call.
StageOf(call) == IF call.fn = "serialize" THEN "serialize" ELSE call.slot
StageRank(stage) == CASE stage = "params" -> 1 [] stage = "query" -> 2 [] OTHER -> 3
Stages == [i \in 1..Len(last.calls) |-> StageOf(last.calls[i])]
ParamsRejected ==
  AllPresent /\ Truthy(Definition.params) /\ ~(IsStandard(Definition.params) /\ ParamsVerdict.tag = "ok")
QueryRejected ==
  ParamsStagePasses /\ Truthy(Definition.query) /\ ~(IsStandard(Definition.query) /\ QueryVerdict.tag = "ok")

\* C24: the calls path() makes on the params validator, the query validator
\* and the serializer come in that order and at most once each; a call that
\* fails at the lookup or the presence check has made none of them, one that
\* fails at the params validator has called that validator alone, one that
\* fails at the query validator has not called the serializer, no failed call
\* has called the serializer, and a call that returns a path has called each
\* validator the route has, and the serializer last.
C24_SinglePassInOrder ==
  last.op = "path" =>
    /\ \A i, j \in 1..Len(Stages) : i < j => StageRank(Stages[i]) < StageRank(Stages[j])
    /\ ~last.ok => \A i \in 1..Len(Stages) : Stages[i] # "serialize"
    /\ (~Registered \/ ~AllPresent) => (~last.ok /\ Stages = <<>>)
    /\ (Registered /\ ParamsRejected) => (~last.ok /\ Stages = <<"params">>)
    /\ (Registered /\ QueryRejected) =>
         /\ ~last.ok
         /\ Stages = (IF Truthy(Definition.params) THEN <<"params">> ELSE <<>>) \o <<"query">>
    /\ last.ok =>
         Stages = (IF Truthy(Definition.params) THEN <<"params">> ELSE <<>>)
                    \o (IF Truthy(Definition.query) THEN <<"query">> ELSE <<>>)
                    \o <<"serialize">>

\* A route with both schemas whose params schema rejected the raw params:
\* path() has failed after the one call to the params schema.
C24_Witness ==
  /\ last.op = "path" /\ Registered /\ ParamsRejected
  /\ Truthy(Definition.query)
  /\ ~last.ok /\ last.error.kind = "StandardSchemaV1Error"
  /\ Len(last.calls) = 1 /\ last.calls[1].slot = "params"

\* Neither the call nor the constructor supplied a base URL.
NoBaseAvailable == ~Supplied(last.options.baseUrl) /\ ~Supplied(defaultBaseUrl)

\* C25: URL() and href() without a base URL from the call or the constructor
\* fail with the error of the earlier stage when the template is not
\* registered, a placeholder is missing or a schema rejects the params or the
\* query; when all of that passes they fail with the no-base-URL error, and
\* by then have called each validator the route has and the serializer.
C25_BaseUrlCheckedLast ==
  (last.op \in {"URL", "href"} /\ NoBaseAvailable) =>
    /\ ~last.ok
    /\ ~Registered => last.error = NotRegistered(last.options.path)
    /\ (Registered /\ ~AllPresent) => last.error.kind = "MissingParameter"
    /\ (Registered /\ (ParamsRejected \/ QueryRejected)) =>
         last.error.kind \in {"StandardSchemaV1Error", "ValidatorCrash"}
    /\ (Registered /\ ParamsStagePasses /\ ~QueryRejected) =>
         /\ last.error = NoBaseUrl
         /\ Stages = (IF Truthy(Definition.params) THEN <<"params">> ELSE <<>>)
                       \o (IF Truthy(Definition.query) THEN <<"query">> ELSE <<>>)
                       \o <<"serialize">>

\* URL() without any base URL on a route with both schemas and valid inputs:
\* both schemas and the serializer were called before the no-base-URL error.
C25_Witness ==
  /\ last.op = "URL" /\ NoBaseAvailable /\ Registered
  /\ Truthy(Definition.params) /\ Truthy(Definition.query)
  /\ ~last.ok /\ last.error = NoBaseUrl
  /\ Len(last.calls) = 3

\* href() without any base URL and with params the schema rejects fails with
\* the schema's error.
C25_WitnessEarlierError ==
  /\ last.op = "href" /\ NoBaseAvailable /\ Registered /\ ParamsRejected
  /\ ~last.ok /\ last.error.kind = "StandardSchemaV1Error"

\* The template has a placeholder name twice, or one that begins another.
IsPrefix(p, s) == Len(p) <= Len(s) /\ SubSeq(s, 1, Len(p)) = p
RepeatsOrPrefixes(t) ==
  \E i, j \in TokenStarts(t) : i # j /\ IsPrefix(TokenName(t, i), TokenName(t, j))

\* A placeholder of the template stands right after a ":" of the template.
PlaceholderAfterColon(t) == \E i \in TokenStarts(t) : i > 1 /\ t[i - 1] = ":"

\* C26: a path that path() returns for a template in which a placeholder name
\* occurs twice or begins another name is the template with every placeholder
\* replaced by the encoded value of its own name and nothing else changed,
\* behind the leading slash and before the query string, if any.
C26_EveryOccurrenceReplaced ==
  (last.op = "path" /\ Registered /\ last.ok /\ RepeatsOrPrefixes(last.options.path)) =>
    PathOf(last.value.s, WithSlash(Replaced(last.options.path, 1, RawParams)))

\* The same for the templates without a placeholder right after a ":".
C26_WithoutColonBefore ==
  (last.op = "path" /\ Registered /\ last.ok /\ ~PlaceholderAfterColon(last.options.path)) =>
    PathOf(last.value.s, WithSlash(Replaced(last.options.path, 1, RawParams)))

\* ":a:ab" built from a = "1" and ab = "3".
C26_PrefixReached ==
  /\ last.op = "path" /\ Registered /\ last.ok
  /\ last.options.path = <<":", "a", ":", "a", "b">>
  /\ querySerializer = "default"
  /\ last.value.s = <<"/", "1", "3">>

\* The names of the placeholders of t from index i on, one for each occurrence.
RECURSIVE NamesFrom(_, _)
NamesFrom(t, i) ==
  IF i > Len(t) THEN <<>>
  ELSE IF i \in TokenStarts(t) THEN <<TokenName(t, i)>> \o NamesFrom(t, TokenEnd(t, i) + 1)
  ELSE NamesFrom(t, i + 1)

NoDuplicates(names) == \A i, j \in 1..Len(names) : names[i] = names[j] => i = j

\* C30 as stated: the extraction returns the names of the placeholders in the
\* order of their first occurrence, each name once.
C30_NamesListedOnce ==
  last.op = "extract" =>
    /\ NoDuplicates(last.value)
    /\ \A i \in TokenStarts(last.options.path) :
         \E k \in 1..Len(last.value) : last.value[k] = TokenName(last.options.path, i)
    /\ \A k \in 1..Len(last.value) :
         \E i \in TokenStarts(last.options.path) : last.value[k] = TokenName(last.options.path, i)

\* C30: the extraction returns the names of the tokens matching
\* ":[A-Za-z0-9_]+" from left to right, one entry for each occurrence: a name
\* that appears several times in the template is listed as many times.
C30_NamesPerOccurrence ==
  last.op = "extract" =>
    /\ last.value = NamesFrom(last.options.path, 1)
    /\ Len(last.value) = Cardinality(TokenStarts(last.options.path))

\* ":a:a" yields a twice.
C30_Witness ==
  /\ last.op = "extract"
  /\ last.options.path = <<":", "a", ":", "a">>
  /\ last.value = <<A, A>>

\* What the assert capability of the validator of the adapter call hands back
\* for the input of the call.
AssertHandback == Invoke(last.options.schema, "assert", last.options.input)

\* The createParseFn adapter was given a callable validator with an assert
\* capability (shape 1).
CallableWithAssert ==
  /\ last.op = "validate" /\ impl = "legacy"
  /\ {"call", "assert"} \subseteq last.options.schema.caps

\* C27 as stated: with a callable validator that has an assert capability,
\* when the assert call does not raise the validation succeeds and its output
\* is the input that was passed in, whatever assert returned.
C27_CallableAssertReturnsInput ==
  (CallableWithAssert /\ AssertHandback.tag = "return") =>
    /\ last.ok
    /\ last.value = last.options.input

\* What the adapter does instead: the output is what the assert call returned
\* (awaited when it is a promise).
C27_CallableAssertReturnsItsValue ==
  (CallableWithAssert /\ AssertHandback.tag = "return") =>
    /\ last.ok
    /\ last.value = (IF AssertHandback.value.t = "promise"
                     THEN AssertHandback.value.resolved ELSE AssertHandback.value)
    /\ Len(last.calls) = 1 /\ last.calls[1].cap = "assert"

\* The createParseFn adapter was given a validator that is not callable and
\* has assert but none of parse, validateSync and create (shape 6).
BareAssert ==
  /\ last.op = "validate" /\ impl = "legacy"
  /\ "assert" \in last.options.schema.caps
  /\ last.options.schema.caps \cap {"call", "parse", "validateSync", "create"} = {}

\* C28: with a validator that is not callable and whose capability is assert,
\* the adapter calls assert once, on the input; when assert returns, whatever
\* it returns, the output is the input, and when assert raises, the adapter
\* raises that error and there is no output.
C28_BareAssertReturnsInput ==
  BareAssert =>
    /\ last.calls = <<Call("params", "assert", last.options.input)>>
    /\ AssertHandback.tag = "return" => (last.ok /\ last.value = last.options.input)
    /\ AssertHandback.tag = "throw" => (~last.ok /\ last.error = AssertHandback.error)

\* An assert that accepts the input and returns nothing: the output is the input.
C28_Witness ==
  /\ BareAssert
  /\ last.options.schema.caps = {"assert"} /\ last.options.schema.ret = "void"
  /\ AssertHandback = [tag |-> "return", value |-> Undefined]
  /\ last.ok /\ last.value = last.options.input

\* An assert that rejects the input: its error is the error of the validation.
C28_WitnessRaises ==
  /\ BareAssert /\ last.options.schema.caps = {"assert"}
  /\ AssertHandback.tag = "throw"
  /\ ~last.ok /\ last.error = LibraryError(CheckIssues)

\* The text String() makes of null and of undefined.
NullishText(v) ==
  IF v.t = "null" THEN <<"n", "u", "l", "l">>
  ELSE <<"u", "n", "d", "e", "f", "i", "n", "e", "d">>

\* C29: path() on "/u/:id" with params that have the key id with the value
\* null or undefined, on a route whose schemas (if any) accept the inputs and
\* keep the key, passes both presence checks and returns "/u/null" or
\* "/u/undefined" (followed by the query string, if any).
C29_NullishValuesSubstituted ==
  (/\ last.op = "path" /\ Registered /\ last.options.path = T_USER
   /\ HasKey(RawParams, ID) /\ Get(RawParams, ID).t \in {"null", "undef"}
   /\ ~ParamsRejected /\ ~QueryRejected
   /\ HasKey(SchemaParams, ID) /\ Get(SchemaParams, ID) = Get(RawParams, ID)) =>
    /\ last.ok
    /\ PathOf(last.value.s, <<"/", "u", "/">> \o NullishText(Get(RawParams, ID)))

\* {id: undefined} on the route without schemas gives "/u/undefined".
C29_Witness ==
  /\ last.op = "path" /\ Registered /\ last.options.path = T_USER
  /\ RawParams = Obj(<<Entry(ID, Undefined)>>)
  /\ ~Truthy(Definition.params)
  /\ last.ok
  /\ PathOf(last.value.s, <<"/", "u", "/", "u", "n", "d", "e", "f", "i", "n", "e", "d">>)

\* {id: null} on the route whose params schema keeps a key it is given gives
\* "/u/null".
C29_WitnessNull ==
  /\ last.op = "path" /\ Registered /\ last.options.path = T_USER
  /\ RawParams = Obj(<<Entry(ID, Null)>>)
  /\ Truthy(Definition.params)
  /\ last.ok
  /\ PathOf(last.value.s, <<"/", "u", "/", "n", "u", "l", "l">>)

====
